---------------------------- MODULE Spec2Model ----------------------------
(***************************************************************************)
(* Real-time room session coordinator of the riverside backend             *)
(* (backend/src/socket/index.ts) beside the persisted store it consults    *)
(* and the REST room routes that write that store.                         *)
(*                                                                         *)
(* One Node.js process: a handler runs without interruption up to its next *)
(* store call (await prisma...), where it is suspended; the handlers of    *)
(* other commands run in between.  A step of the model is one such         *)
(* uninterrupted segment.  The store call issued at the end of a segment   *)
(* is applied with it; the segment that precedes a store call never        *)
(* changes in-memory state, so this loses no interleaving.                 *)
(***************************************************************************)
EXTENDS Integers, Sequences, FiniteSets, TLC

(***************************************************************************)
(* Universe and bounds                                                     *)
(***************************************************************************)
\* Users known to the credential issuer.  H hosts every room, G is a guest.
Users == {"H", "G"}

\* Rooms with a persisted record, and one id without a record.
Rooms == {"A", "B"}
NoRoom == "Z"
RoomIds == Rooms \cup {NoRoom}

\* Connection handles and the user whose credential each one presents.
Conns == {"c1", "c2", "c3"}
UserOf(c) == IF c = "c1" THEN "H" ELSE "G"

\* Commands (socket commands and REST requests) accepted in one run of Spec.
MaxCmds == 2
\* Commands accepted in one run of SpecLive.
MaxLiveCmds == 3
\* Commands accepted in one run of SpecRooms.
MaxRoomCmds == 3

None == "none"

VARIABLES
  conn,             \* connection -> "new" | "refused" | "connected" | "closed"
  userName,         \* connection -> socket.userName
  socketRooms,      \* connection -> the broadcast groups (socket.io rooms) it is in
  roomParticipants, \* the presence registry: room id -> (user id -> RoomParticipant)
  roomRec,          \* persisted Room rows
  partRec,          \* persisted Participant rows, keyed <<user, room>>
  waitRec,          \* persisted WaitingRoom rows, keyed <<user, room>>
  pending,          \* handlers suspended on a store call
  out,              \* events emitted by the last step, in emission order
  budget            \* commands the run still accepts

vars == <<conn, userName, socketRooms, roomParticipants, roomRec, partRec,
          waitRec, pending, out, budget>>

(***************************************************************************)
(* Map helpers (JavaScript Map semantics)                                  *)
(***************************************************************************)
MapSet(m, k, v) == [x \in (DOMAIN m) \cup {k} |-> IF x = k THEN v ELSE m[x]]
MapDelete(m, k) == [x \in (DOMAIN m) \ {k} |-> m[x]]
EmptyMap == [x \in {} |-> None]

\* roomParticipants.has(roomId) && roomParticipants.get(roomId).has(userId)
HasEntry(rp, r, u) == r \in DOMAIN rp /\ u \in DOMAIN rp[r]

(***************************************************************************)
(* Broadcast router                                                        *)
(***************************************************************************)
Live(c) == conn[c] = "connected"
\* the sockets of a room's group that the adapter can still deliver to
Group(r) == {c \in Conns : r \in socketRooms[c] /\ Live(c)}

\* one emitted event: its name, the connections addressed, the handler's
\* connection, the room, the user it is about and its payload
Ev(ev, to, by, room, id, data) ==
  [ev |-> ev, to |-> to, by |-> by, room |-> room, id |-> id, data |-> data]

\* (mutant: an error that is logged and sent to nobody)
ErrorEvLogged(c, msg) == Ev("error", {}, c, None, None, msg)

\* socket.emit("error", {message})
ErrorEv(c, msg) == Ev("error", {c}, c, None, None, msg)

(***************************************************************************)
(* Persisted store                                                         *)
(***************************************************************************)
NoPart == [exists |-> FALSE, role |-> None, leftAt |-> None]
ActivePart(role) == [exists |-> TRUE, role |-> role, leftAt |-> "null"]
IsActivePart(p) == p.exists /\ p.leftAt = "null"

\* prisma.room.findUnique({where: {id}, include: {participants:
\*   {where: {userId, leftAt: null}}}}): the room row, or none, and the role
\* of the caller's active participant row, or none
\* (a result keeps one shape: ok, found, the room row, the participant role and
\* the participant count, the parts a call does not return left blank)
Result(ok, found, room, part, count) ==
  [ok |-> ok, found |-> found, room |-> room, part |-> part, count |-> count]
BlankRoom ==
  [isActive |-> FALSE, hostId |-> None, videoEnabled |-> FALSE,
   waitingRoom |-> FALSE, maxParticipants |-> 0]
NotFound == Result(TRUE, FALSE, BlankRoom, None, 0)
FindRoom(r, u) ==
  IF r \in DOMAIN roomRec
    THEN Result(TRUE, TRUE, roomRec[r],
                IF IsActivePart(partRec[<<u, r>>]) THEN partRec[<<u, r>>].role ELSE None,
                0)
    ELSE NotFound
\* the store call rejects (connection lost, timeout, ...)
Threw == Result(FALSE, FALSE, BlankRoom, None, 0)

\* a suspended handler: which command, on which connection, for which room
\* and target, where it is suspended and what the store call returns
Handler(kind, c, r, t, stage, res) ==
  [kind |-> kind, c |-> c, room |-> r, target |-> t, stage |-> stage, res |-> res]

\* a command is accepted while the run's budget lasts
CanStart == budget > 0
Accept == budget' = budget - 1


(***************************************************************************)
(* Connection authenticator: io.use(...)                                   *)
(***************************************************************************)
Tokens == {"none", "invalid", "valid"}

\* prisma.user.findUnique({where: {id}, select: {name}}): the row of user u
UserRow(u) == [found |-> TRUE, name |-> IF u = "H" THEN "Host" ELSE "Guest"]

\* socket.userName = user?.name || "Anonymous"
ResolveName(row) == IF row.found /\ row.name # "" THEN row.name ELSE "Anonymous"

\* prisma.user.findUnique found no row for the id the token carries
NoUserRow == [found |-> FALSE, name |-> ""]

\* what the user lookup can return for user u
UserRows(u) == {UserRow(u), NoUserRow}

\* (mutant: any token that is presented passes)
VerifiedAny(token) == token # "none"

\* if (!token) ... ; const decoded = verifyToken(token); if (!decoded) ...
Verified(token) == token = "valid"

\* io.use(...): the middleware for a new connection presenting token; the
\* user lookup rejects (~lookupOk) or returns row
Connect(c, token, lookupOk, row) ==
  /\ conn[c] = "new"
  /\ IF Verified(token) /\ lookupOk
       THEN /\ conn' = [conn EXCEPT ![c] = "connected"]
            /\ userName' = [userName EXCEPT ![c] = ResolveName(row)]
       ELSE /\ conn' = [conn EXCEPT ![c] = "refused"]
            /\ UNCHANGED userName
  /\ out' = <<>>
  /\ UNCHANGED <<socketRooms, roomParticipants, roomRec, partRec, waitRec,
                 pending, budget>>

(***************************************************************************)
(* join-room                                                               *)
(***************************************************************************)
\* const participantData: RoomParticipant = {...}
ParticipantData(u, name, room, role) ==
  [odId |-> u, odName |-> name, odIsMuted |-> FALSE,
   odIsVideoOff |-> ~room.videoEnabled, odRole |-> role]

\* (mutant: a repeat join keeps the entry the user already has)
JoinRegistryKeep(rp, r, u, entry) ==
  IF r \in DOMAIN rp /\ u \in DOMAIN rp[r]
    THEN rp
    ELSE MapSet(rp, r, MapSet(IF r \in DOMAIN rp THEN rp[r] ELSE EmptyMap, u, entry))

\* (mutant: every join starts the room's map afresh)
JoinRegistryFresh(rp, r, u, entry) ==
  MapSet(rp, r, MapSet(EmptyMap, u, entry))

\* if (!roomParticipants.has(roomId)) roomParticipants.set(roomId, new Map());
\* roomParticipants.get(roomId).set(socket.userId, participantData)
JoinRegistry(rp, r, u, entry) ==
  LET rp1 == IF r \in DOMAIN rp THEN rp ELSE MapSet(rp, r, EmptyMap)
  IN  MapSet(rp1, r, MapSet(rp1[r], u, entry))

\* (mutant: the handler without the participant check)
JoinOutcomeNoPart(res) ==
  IF ~res.ok THEN "Failed to join room"
  ELSE IF ~res.found THEN "Room not found"
  ELSE IF ~res.room.isActive THEN "Room is not active"
  ELSE "ok"

\* (mutant: the participant check ahead of the active check)
JoinOutcomeSwapped(res) ==
  IF ~res.ok THEN "Failed to join room"
  ELSE IF ~res.found THEN "Room not found"
  ELSE IF res.part = None THEN "You are not a participant in this room"
  ELSE IF ~res.room.isActive THEN "Room is not active"
  ELSE "ok"

\* The checks of the handler in their order; "ok" when all pass.
JoinOutcome(res) ==
  IF ~res.ok THEN "Failed to join room"
  ELSE IF ~res.found THEN "Room not found"
  ELSE IF ~res.room.isActive THEN "Room is not active"
  ELSE IF res.part = None THEN "You are not a participant in this room"
  ELSE "ok"

\* Array.from(roomParticipants.get(roomId).values())
CurrentParticipants(rp, r) == {rp[r][x] : x \in DOMAIN rp[r]}

\* (mutant: the broadcast ahead of the confirmation)
JoinEventsSwapped(c, r, u, rp, role) ==
  << Ev("participant-joined", Group(r) \ {c}, c, r, u, role),
     Ev("room-joined", {c}, c, r, u, CurrentParticipants(rp, r)) >>

\* (mutant: the snapshot taken before the joiner's entry is inserted)
JoinEventsStale(c, r, u, rp, role) ==
  << Ev("room-joined", {c}, c, r, u,
        IF r \in DOMAIN roomParticipants
          THEN CurrentParticipants(roomParticipants, r) ELSE {}),
     Ev("participant-joined", Group(r) \ {c}, c, r, u, role) >>

\* the events of a successful join, in emission order
JoinEvents(c, r, u, rp, role) ==
  << Ev("room-joined", {c}, c, r, u, CurrentParticipants(rp, r)),
     Ev("participant-joined", Group(r) \ {c}, c, r, u, role) >>

\* socket.on("join-room"): up to the await of prisma.room.findUnique
JoinRoom(c, r) ==
  /\ Live(c)
  /\ CanStart
  /\ LET h == Handler("join-room", c, r, None, 1, FindRoom(r, UserOf(c)))
     IN  /\ h \notin pending
         /\ pending' = pending \cup {h}
  /\ Accept
  /\ out' = <<>>
  /\ UNCHANGED <<conn, userName, socketRooms, roomParticipants, roomRec,
                 partRec, waitRec>>

\* the rest of the handler, after the await: the lookup has resolved with
\* what it read, or it rejects
JoinResume(h, storeOk) ==
  /\ h \in pending
  /\ h.kind = "join-room"
  /\ pending' = pending \ {h}
  /\ LET c == h.c
         r == h.room
         u == UserOf(h.c)
         verdict == JoinOutcome(IF storeOk THEN h.res ELSE Threw)
     IN  IF verdict = "ok"
           THEN LET entry == ParticipantData(u, userName[c], h.res.room, h.res.part)
                    rp == JoinRegistry(roomParticipants, r, u, entry)
                IN  /\ socketRooms' = [socketRooms EXCEPT ![c] = @ \cup {r}]
                    /\ roomParticipants' = rp
                    /\ out' = JoinEvents(c, r, u, rp, h.res.part)
           ELSE /\ out' = <<ErrorEv(c, verdict)>>
                /\ UNCHANGED <<socketRooms, roomParticipants>>
  /\ UNCHANGED <<conn, userName, roomRec, partRec, waitRec, budget>>

(***************************************************************************)
(* leave-room and disconnect                                               *)
(***************************************************************************)
\* (mutant: the leave without the clean-up of the empty room)
LeaveRegistryNoPrune(rp, r, u) ==
  IF r \in DOMAIN rp THEN MapSet(rp, r, MapDelete(rp[r], u)) ELSE rp

\* (mutant: the leave that keeps the user's entry)
LeaveRegistryKeepEntry(rp, r, u) == rp

\* if (roomParticipants.has(roomId)) { get(roomId).delete(userId);
\*   if (get(roomId).size === 0) roomParticipants.delete(roomId) }
LeaveRegistry(rp, r, u) ==
  IF r \in DOMAIN rp
    THEN LET m == MapDelete(rp[r], u)
         IN  IF DOMAIN m = {} THEN MapDelete(rp, r) ELSE MapSet(rp, r, m)
    ELSE rp

\* (mutant: a leave-room that also marks the participant record as left)
LeaveRoomMarksLeft(c, r) ==
  /\ Live(c)
  /\ CanStart
  /\ Accept
  /\ socketRooms' = [socketRooms EXCEPT ![c] = @ \ {r}]
  /\ roomParticipants' = LeaveRegistry(roomParticipants, r, UserOf(c))
  /\ out' = << Ev("participant-left", Group(r) \ {c}, c, r, UserOf(c), None) >>
  /\ partRec' = [k \in DOMAIN partRec |->
                   IF k = <<UserOf(c), r>> /\ partRec[k].exists
                     THEN [partRec[k] EXCEPT !.leftAt = "set"] ELSE partRec[k]]
  /\ UNCHANGED <<conn, userName, roomRec, waitRec, pending>>

\* socket.on("leave-room"): no store call, one segment
LeaveRoom(c, r) ==
  /\ Live(c)
  /\ CanStart
  /\ Accept
  /\ socketRooms' = [socketRooms EXCEPT ![c] = @ \ {r}]
  /\ roomParticipants' = LeaveRegistry(roomParticipants, r, UserOf(c))
  /\ out' = << Ev("participant-left", Group(r) \ {c}, c, r, UserOf(c), None) >>
  /\ UNCHANGED <<conn, userName, roomRec, partRec, waitRec, pending>>

\* the order in which a loop over rooms (connections) emits its events: one
\* fixed order stands for the Map's insertion order (the adapter's order);
\* the events of one loop go to different groups (connections)
RoomSeq == <<"A", "B", "Z">>
ConnSeq == <<"c1", "c2", "c3">>

\* roomParticipants.forEach((participants, roomId) => { if (participants.has(userId)) {
\*   participants.delete(userId); ...; if (participants.size === 0) roomParticipants.delete(roomId) } })
DisconnectRegistry(rp, u) ==
  [r \in {x \in DOMAIN rp : ~(DOMAIN rp[x] = {u})} |-> MapDelete(rp[r], u)]

\* socket.on("disconnect"): socket.io has already taken the socket out of its
\* rooms when the handler runs
Disconnect(c) ==
  /\ Live(c)
  /\ conn' = [conn EXCEPT ![c] = "closed"]
  /\ socketRooms' = [socketRooms EXCEPT ![c] = {}]
  /\ roomParticipants' = DisconnectRegistry(roomParticipants, UserOf(c))
  /\ LET left(r) == Ev("participant-left", Group(r) \ {c}, c, r, UserOf(c), None)
         hit(r) == HasEntry(roomParticipants, r, UserOf(c))
         rs == SelectSeq(RoomSeq, hit)
     IN  out' = [i \in 1..Len(rs) |-> left(rs[i])]
  /\ UNCHANGED <<userName, roomRec, partRec, waitRec, pending, budget>>

(***************************************************************************)
(* chat-message.  A text is the sequence of its characters.                *)
(***************************************************************************)
\* the characters String.prototype.trim() strips
WhiteSpace == {" ", "\t"}

\* the texts a client sends: empty, blank, padded and plain
Messages ==
  { <<>>, <<" ">>, <<" ", "\t">>, <<" ", "h", "i", " ">>, <<"h", " ", "i">> }

\* String.prototype.trim(): the text without its leading and trailing white space
RECURSIVE TrimStart(_)
TrimStart(s) ==
  IF s # <<>> /\ Head(s) \in WhiteSpace THEN TrimStart(Tail(s)) ELSE s

RECURSIVE TrimEnd(_)
TrimEnd(s) ==
  IF s # <<>> /\ s[Len(s)] \in WhiteSpace
    THEN TrimEnd(SubSeq(s, 1, Len(s) - 1))
    ELSE s

Trim(s) == TrimEnd(TrimStart(s))

\* (mutant: the handler without the check of the text)
ChatEventsNoBlankCheck(c, r, m) ==
  IF ~HasEntry(roomParticipants, r, UserOf(c))
    THEN <<ErrorEv(c, "You are not in this room")>>
    ELSE << Ev("chat-message", Group(r), c, r, UserOf(c), Trim(m)) >>

\* (mutant: the handler without the check of the sender's entry)
ChatEventsNoEntryCheck(c, r, m) ==
  IF m = <<>> \/ Len(Trim(m)) = 0
    THEN <<>>
    ELSE << Ev("chat-message", Group(r), c, r, UserOf(c), Trim(m)) >>

\* the events of the handler: none for a text that is empty or blank, an
\* error for a sender without an entry, else io.to(roomId).emit("chat-message")
\* with the trimmed text (its id and timestamp are left out)
ChatEvents(c, r, m) ==
  IF m = <<>> \/ Len(Trim(m)) = 0
    THEN <<>>
    ELSE IF ~HasEntry(roomParticipants, r, UserOf(c))
    THEN <<ErrorEv(c, "You are not in this room")>>
    ELSE << Ev("chat-message", Group(r), c, r, UserOf(c), Trim(m)) >>

\* socket.on("chat-message"): no store call, one segment
ChatMessage(c, r, m) ==
  /\ Live(c)
  /\ CanStart
  /\ Accept
  /\ out' = ChatEvents(c, r, m)
  /\ UNCHANGED <<conn, userName, socketRooms, roomParticipants, roomRec,
                 partRec, waitRec, pending>>

\* Date.now() as the handler reads it: the millisecond of the call
Ticks == {1, 2}

\* Math.random().toString(36).substr(2, 9): what the generator returns
Suffixes == {"a", "b"}

\* id: `msg-${Date.now()}-${Math.random().toString(36).substr(2, 9)}`
MessageId(now, rnd) == <<"msg", now, rnd>>

\* the events evs with the chat message's id filled in
WithMessageId(evs, id) ==
  [i \in DOMAIN evs |->
     IF evs[i].ev = "chat-message" THEN [evs[i] EXCEPT !.id = id] ELSE evs[i]]

\* socket.on("chat-message") with the id of the message made explicit: the
\* handler reads the clock (now) and the random generator (rnd)
ChatMessageAt(c, r, m, now, rnd) ==
  /\ Live(c)
  /\ CanStart
  /\ Accept
  /\ out' = WithMessageId(ChatEvents(c, r, m), MessageId(now, rnd))
  /\ UNCHANGED <<conn, userName, socketRooms, roomParticipants, roomRec,
                 partRec, waitRec, pending>>

(***************************************************************************)
(* toggle-audio and toggle-video                                           *)
(***************************************************************************)
\* (mutant: the assignment to the flag left out)
SetFlagKeep(rp, r, u, flag, b) == rp

\* (mutant: the flag assigned on every entry of the room)
SetFlagWholeRoom(rp, r, u, flag, b) ==
  [rp EXCEPT ![r] = [v \in DOMAIN rp[r] |-> [rp[r][v] EXCEPT ![flag] = b]]]

\* participant.odIsMuted = isMuted (participant.odIsVideoOff = isVideoOff)
SetFlag(rp, r, u, flag, b) == [rp EXCEPT ![r][u][flag] = b]

\* (mutant: a toggle that reports the missing entry to the sender)
ToggleAudioReportsMissing(c, r, b) ==
  /\ Live(c)
  /\ CanStart
  /\ Accept
  /\ IF HasEntry(roomParticipants, r, UserOf(c))
       THEN /\ roomParticipants' = SetFlag(roomParticipants, r, UserOf(c), "odIsMuted", b)
            /\ out' = << Ev("participant-audio-changed", Group(r) \ {c}, c, r, UserOf(c), b) >>
       ELSE /\ out' = <<ErrorEv(c, "You are not in this room")>>
            /\ UNCHANGED roomParticipants
  /\ UNCHANGED <<conn, userName, socketRooms, roomRec, partRec, waitRec, pending>>

\* socket.on("toggle-audio"): no store call, one segment
ToggleAudio(c, r, b) ==
  /\ Live(c)
  /\ CanStart
  /\ Accept
  /\ IF HasEntry(roomParticipants, r, UserOf(c))
       THEN /\ roomParticipants' = SetFlag(roomParticipants, r, UserOf(c), "odIsMuted", b)
            /\ out' = << Ev("participant-audio-changed", Group(r) \ {c}, c, r, UserOf(c), b) >>
       ELSE /\ out' = <<>>
            /\ UNCHANGED roomParticipants
  /\ UNCHANGED <<conn, userName, socketRooms, roomRec, partRec, waitRec, pending>>

\* socket.on("toggle-video"): no store call, one segment
ToggleVideo(c, r, b) ==
  /\ Live(c)
  /\ CanStart
  /\ Accept
  /\ IF HasEntry(roomParticipants, r, UserOf(c))
       THEN /\ roomParticipants' = SetFlag(roomParticipants, r, UserOf(c), "odIsVideoOff", b)
            /\ out' = << Ev("participant-video-changed", Group(r) \ {c}, c, r, UserOf(c), b) >>
       ELSE /\ out' = <<>>
            /\ UNCHANGED roomParticipants
  /\ UNCHANGED <<conn, userName, socketRooms, roomRec, partRec, waitRec, pending>>

(***************************************************************************)
(* Host moderation                                                         *)
(***************************************************************************)
\* prisma.room.findUnique({where: {id}})
FindRoomOnly(r) ==
  IF r \in DOMAIN roomRec THEN Result(TRUE, TRUE, roomRec[r], None, 0) ELSE NotFound

\* the outcome of a store write: it resolved, or it rejected
Wrote(storeOk) == Result(storeOk, FALSE, BlankRoom, None, 0)

\* !room || room.hostId !== socket.userId
\* (mutant: a check that looks at the room only, not at its host)
NotHostMissingOnly(res, u) == ~res.found

NotHost(res, u) == ~res.found \/ res.room.hostId # u

\* socket.on("host-mute-participant"): up to the await of the room lookup
HostMuteParticipant(c, r, t) ==
  /\ Live(c)
  /\ CanStart
  /\ LET h == Handler("host-mute-participant", c, r, t, 1, FindRoomOnly(r))
     IN  /\ h \notin pending
         /\ pending' = pending \cup {h}
  /\ Accept
  /\ out' = <<>>
  /\ UNCHANGED <<conn, userName, socketRooms, roomParticipants, roomRec,
                 partRec, waitRec>>

\* (mutant: a mute that tells the room and leaves the entry as it is)
MuteRegistrySkip(rp, r, t) == rp

\* if (has(roomId) && get(roomId).has(targetUserId)) participant.odIsMuted = true
MuteRegistry(rp, r, t) ==
  IF HasEntry(rp, r, t) THEN SetFlag(rp, r, t, "odIsMuted", TRUE) ELSE rp

\* (mutant: a rejected lookup that is swallowed without an error event)
HostMuteResumeSilent(h, storeOk) ==
  /\ h \in pending
  /\ h.kind = "host-mute-participant"
  /\ pending' = pending \ {h}
  /\ IF ~storeOk
       THEN /\ out' = <<>>
            /\ UNCHANGED roomParticipants
       ELSE IF NotHost(h.res, UserOf(h.c))
       THEN /\ out' = <<ErrorEv(h.c, "Only the host can mute participants")>>
            /\ UNCHANGED roomParticipants
       ELSE /\ roomParticipants' = MuteRegistry(roomParticipants, h.room, h.target)
            /\ out' = << Ev("participant-muted-by-host", Group(h.room), h.c,
                            h.room, h.target, userName[h.c]) >>
  /\ UNCHANGED <<conn, userName, socketRooms, roomRec, partRec, waitRec, budget>>

\* the rest of the handler
HostMuteResume(h, storeOk) ==
  /\ h \in pending
  /\ h.kind = "host-mute-participant"
  /\ pending' = pending \ {h}
  /\ IF ~storeOk
       THEN /\ out' = <<ErrorEv(h.c, "Failed to mute participant")>>
            /\ UNCHANGED roomParticipants
       ELSE IF NotHost(h.res, UserOf(h.c))
       THEN /\ out' = <<ErrorEv(h.c, "Only the host can mute participants")>>
            /\ UNCHANGED roomParticipants
       ELSE /\ roomParticipants' = MuteRegistry(roomParticipants, h.room, h.target)
            /\ out' = << Ev("participant-muted-by-host", Group(h.room), h.c,
                            h.room, h.target, userName[h.c]) >>
  /\ UNCHANGED <<conn, userName, socketRooms, roomRec, partRec, waitRec, budget>>

\* socket.on("host-remove-participant"): up to the await of the room lookup
HostRemoveParticipant(c, r, t) ==
  /\ Live(c)
  /\ CanStart
  /\ LET h == Handler("host-remove-participant", c, r, t, 1, FindRoomOnly(r))
     IN  /\ h \notin pending
         /\ pending' = pending \cup {h}
  /\ Accept
  /\ out' = <<>>
  /\ UNCHANGED <<conn, userName, socketRooms, roomParticipants, roomRec,
                 partRec, waitRec>>

\* (mutant: an updateMany that matches no row)
MarkLeftNone(pr, u, r) == pr

\* prisma.participant.updateMany({where: {roomId, userId, leftAt: null},
\*   data: {leftAt: new Date()}})
MarkLeft(pr, u, r) ==
  IF IsActivePart(pr[<<u, r>>])
    THEN [pr EXCEPT ![<<u, r>>].leftAt = "set"]
    ELSE pr

\* (mutant: no check that the target is the caller)
RemovesSelfNever(t, u) == FALSE

\* if (targetUserId === socket.userId)
RemovesSelf(t, u) == t = u

\* the lookup resolves (lookupOk) or rejects; the checks; then the await of
\* prisma.participant.updateMany, which the store applies (storeOk) or rejects
HostRemoveCheck(h, lookupOk, storeOk) ==
  /\ h \in pending
  /\ h.kind = "host-remove-participant"
  /\ h.stage = 1
  /\ IF ~lookupOk
       THEN /\ out' = <<ErrorEv(h.c, "Failed to remove participant")>>
            /\ pending' = pending \ {h}
            /\ UNCHANGED partRec
       ELSE IF NotHost(h.res, UserOf(h.c))
       THEN /\ out' = <<ErrorEv(h.c, "Only the host can remove participants")>>
            /\ pending' = pending \ {h}
            /\ UNCHANGED partRec
       ELSE IF RemovesSelf(h.target, UserOf(h.c))
       THEN /\ out' = <<ErrorEv(h.c, "Host cannot remove themselves")>>
            /\ pending' = pending \ {h}
            /\ UNCHANGED partRec
       ELSE /\ out' = <<>>
            /\ pending' = (pending \ {h}) \cup
                 {Handler(h.kind, h.c, h.room, h.target, 2, Wrote(storeOk))}
            /\ partRec' = IF storeOk THEN MarkLeft(partRec, h.target, h.room)
                          ELSE partRec
  /\ UNCHANGED <<conn, userName, socketRooms, roomParticipants, roomRec,
                 waitRec, budget>>

\* if (roomParticipants.has(roomId)) roomParticipants.get(roomId).delete(targetUserId)
RemoveRegistry(rp, r, t) ==
  IF r \in DOMAIN rp THEN MapSet(rp, r, MapDelete(rp[r], t)) ELSE rp

\* (mutant: no socket of the room is taken to be the removed user's)
EvictedNone(r, t) == {}

\* the sockets of the room that belong to the removed user:
\* for (const s of await io.in(roomId).fetchSockets()) if (s.userId === targetUserId)
Evicted(r, t) == {c \in Group(r) : UserOf(c) = t}

\* after the write: drop the entry, tell the room, evict the target's sockets
\* (the in-memory adapter resolves fetchSockets without leaving the process)
HostRemoveFinish(h) ==
  /\ h \in pending
  /\ h.kind = "host-remove-participant"
  /\ h.stage = 2
  /\ pending' = pending \ {h}
  /\ IF ~h.res.ok
       THEN /\ out' = <<ErrorEv(h.c, "Failed to remove participant")>>
            /\ UNCHANGED <<roomParticipants, socketRooms>>
       ELSE LET gone(c) == c \in Evicted(h.room, h.target)
                cs == SelectSeq(ConnSeq, gone)
            IN  /\ roomParticipants' = RemoveRegistry(roomParticipants, h.room, h.target)
                /\ socketRooms' = [c \in Conns |->
                       IF gone(c) THEN socketRooms[c] \ {h.room} ELSE socketRooms[c]]
                /\ out' = << Ev("participant-removed-by-host", Group(h.room), h.c,
                                h.room, h.target, userName[h.c]) >>
                          \o [i \in 1..Len(cs) |->
                                Ev("you-were-removed", {cs[i]}, h.c, h.room,
                                   h.target, userName[h.c])]
  /\ UNCHANGED <<conn, userName, roomRec, partRec, waitRec, budget>>

(***************************************************************************)
(* approve-waiting-participant                                             *)
(***************************************************************************)
\* socket.on("approve-waiting-participant"): up to the await of the room lookup
ApproveWaitingParticipant(c, r, t) ==
  /\ Live(c)
  /\ CanStart
  /\ LET h == Handler("approve-waiting-participant", c, r, t, 1, FindRoomOnly(r))
     IN  /\ h \notin pending
         /\ pending' = pending \cup {h}
  /\ Accept
  /\ out' = <<>>
  /\ UNCHANGED <<conn, userName, socketRooms, roomParticipants, roomRec,
                 partRec, waitRec>>

\* prisma.waitingRoom.update({where: {userId_roomId}, data: {status: "APPROVED"}})
\* resolves only when the row exists
CanApprove(wr, u, r) == wr[<<u, r>>] # None

\* the lookup resolves (lookupOk) or rejects; the host check; then the await
\* of prisma.waitingRoom.update, which the store applies (storeOk and the row
\* exists) or rejects
ApproveCheck(h, lookupOk, storeOk) ==
  /\ h \in pending
  /\ h.kind = "approve-waiting-participant"
  /\ h.stage = 1
  /\ IF ~lookupOk
       THEN /\ out' = <<ErrorEv(h.c, "Failed to approve participant")>>
            /\ pending' = pending \ {h}
            /\ UNCHANGED waitRec
       ELSE IF NotHost(h.res, UserOf(h.c))
       THEN /\ out' = <<ErrorEv(h.c, "Only the host can approve participants")>>
            /\ pending' = pending \ {h}
            /\ UNCHANGED waitRec
       ELSE LET done == storeOk /\ CanApprove(waitRec, h.target, h.room)
            IN  /\ out' = <<>>
                /\ pending' = (pending \ {h}) \cup
                     {Handler(h.kind, h.c, h.room, h.target, 2, Wrote(done))}
                /\ waitRec' = IF done
                                THEN [waitRec EXCEPT ![<<h.target, h.room>>] = "APPROVED"]
                                ELSE waitRec
  /\ UNCHANGED <<conn, userName, socketRooms, roomParticipants, roomRec,
                 partRec, budget>>

\* prisma.participant.create({data: {userId, roomId, role: "GUEST"}}) resolves
\* only when (userId, roomId) has no row yet (Participant_userId_roomId_key)
CanCreate(pr, u, r) == ~pr[<<u, r>>].exists

\* the row the create inserts
CreateParticipant(pr, u, r) ==
  IF CanCreate(pr, u, r) THEN [pr EXCEPT ![<<u, r>>] = ActivePart("GUEST")] ELSE pr

\* after the waiting-room update: it rejected (catch), or the await of
\* prisma.participant.create, which the store applies or rejects
ApproveCreate(h, storeOk) ==
  /\ h \in pending
  /\ h.kind = "approve-waiting-participant"
  /\ h.stage = 2
  /\ IF ~h.res.ok
       THEN /\ out' = <<ErrorEv(h.c, "Failed to approve participant")>>
            /\ pending' = pending \ {h}
            /\ UNCHANGED partRec
       ELSE LET done == storeOk /\ CanCreate(partRec, h.target, h.room)
            IN  /\ out' = <<>>
                /\ pending' = (pending \ {h}) \cup
                     {Handler(h.kind, h.c, h.room, h.target, 3, Wrote(done))}
                /\ partRec' = IF done
                                THEN CreateParticipant(partRec, h.target, h.room)
                                ELSE partRec
  /\ UNCHANGED <<conn, userName, socketRooms, roomParticipants, roomRec,
                 waitRec, budget>>

\* io.to(roomId).emit("waiting-room-approved", { userId })
ApproveEvents(c, r, t) ==
  << Ev("waiting-room-approved", Group(r), c, r, t, None) >>

\* (mutant: the approval also enters the approved user into the registry)
ApproveFinishAdmits(h) ==
  /\ h \in pending
  /\ h.kind = "approve-waiting-participant"
  /\ h.stage = 3
  /\ pending' = pending \ {h}
  /\ out' = IF h.res.ok
              THEN ApproveEvents(h.c, h.room, h.target)
              ELSE <<ErrorEv(h.c, "Failed to approve participant")>>
  /\ roomParticipants' =
       IF h.res.ok
         THEN JoinRegistry(roomParticipants, h.room, h.target,
                           ParticipantData(h.target, "Anonymous", roomRec[h.room], "GUEST"))
         ELSE roomParticipants
  /\ UNCHANGED <<conn, userName, socketRooms, roomRec, partRec, waitRec, budget>>

\* after the create: it rejected (catch), or the broadcast
ApproveFinish(h) ==
  /\ h \in pending
  /\ h.kind = "approve-waiting-participant"
  /\ h.stage = 3
  /\ pending' = pending \ {h}
  /\ out' = IF h.res.ok
              THEN ApproveEvents(h.c, h.room, h.target)
              ELSE <<ErrorEv(h.c, "Failed to approve participant")>>
  /\ UNCHANGED <<conn, userName, socketRooms, roomParticipants, roomRec,
                 partRec, waitRec, budget>>

(***************************************************************************)
(* REST room routes (the external collaborators that write the store).     *)
(* Their HTTP responses are not events of the real-time protocol and are   *)
(* not recorded; a suspended route keeps the requesting user in field c.   *)
(***************************************************************************)
\* _count: {select: {participants: {where: {leftAt: null}}}}
ActiveCount(r) == Cardinality({u \in Users : IsActivePart(partRec[<<u, r>>])})

\* prisma.room.findUnique({where: {id}, include: {_count: ...}})
FindRoomWithCount(r) ==
  IF r \in DOMAIN roomRec THEN Result(TRUE, TRUE, roomRec[r], None, ActiveCount(r)) ELSE NotFound

\* POST /:id/join (and POST /code/:code/join): up to the room lookup
RestJoin(u, r) ==
  /\ CanStart
  /\ LET h == Handler("rest-join", u, r, None, 1, FindRoomWithCount(r))
     IN  /\ h \notin pending
         /\ pending' = pending \cup {h}
  /\ Accept
  /\ out' = <<>>
  /\ UNCHANGED <<conn, userName, socketRooms, roomParticipants, roomRec,
                 partRec, waitRec>>

\* not found, not active, or full: the route answers 4xx and writes nothing
JoinRefused(res) ==
  \/ ~res.found
  \/ ~res.room.isActive
  \/ res.count >= res.room.maxParticipants

\* (mutant: no join goes through the waiting room)
ThroughWaitingRoomNever(res, u) == FALSE

\* if (room.waitingRoom && room.hostId !== req.user.userId)
ThroughWaitingRoom(res, u) == res.room.waitingRoom /\ res.room.hostId # u

\* prisma.participant.upsert({update: {leftAt: null}, create: {role: "GUEST"}})
UpsertParticipant(pr, u, r) ==
  IF pr[<<u, r>>].exists
    THEN [pr EXCEPT ![<<u, r>>].leftAt = "null"]
    ELSE [pr EXCEPT ![<<u, r>>] = ActivePart("GUEST")]

\* the checks, then the waiting-room upsert or the participant upsert; with
\* ~storeOk the lookup or the upsert rejects and nothing is written
RestJoinResume(h, storeOk) ==
  /\ h \in pending
  /\ h.kind = "rest-join"
  /\ pending' = pending \ {h}
  /\ IF ~storeOk \/ JoinRefused(h.res)
       THEN UNCHANGED <<partRec, waitRec>>
       ELSE IF ThroughWaitingRoom(h.res, h.c)
       THEN /\ waitRec' = [waitRec EXCEPT ![<<h.c, h.room>>] = "PENDING"]
            /\ UNCHANGED partRec
       ELSE /\ partRec' = UpsertParticipant(partRec, h.c, h.room)
            /\ UNCHANGED waitRec
  /\ out' = <<>>
  /\ UNCHANGED <<conn, userName, socketRooms, roomParticipants, roomRec, budget>>

\* POST /code/:code/join: up to the room lookup (by code; the same checks
\* and writes as the join by id)
RestJoinByCode(u, r) ==
  /\ CanStart
  /\ LET h == Handler("rest-join-code", u, r, None, 1, FindRoomWithCount(r))
     IN  /\ h \notin pending
         /\ pending' = pending \cup {h}
  /\ Accept
  /\ out' = <<>>
  /\ UNCHANGED <<conn, userName, socketRooms, roomParticipants, roomRec,
                 partRec, waitRec>>

\* the checks, then the waiting-room upsert or the participant upsert
RestJoinByCodeResume(h, storeOk) ==
  /\ h \in pending
  /\ h.kind = "rest-join-code"
  /\ pending' = pending \ {h}
  /\ IF ~storeOk \/ JoinRefused(h.res)
       THEN UNCHANGED <<partRec, waitRec>>
       ELSE IF ThroughWaitingRoom(h.res, h.c)
       THEN /\ waitRec' = [waitRec EXCEPT ![<<h.c, h.room>>] = "PENDING"]
            /\ UNCHANGED partRec
       ELSE /\ partRec' = UpsertParticipant(partRec, h.c, h.room)
            /\ UNCHANGED waitRec
  /\ out' = <<>>
  /\ UNCHANGED <<conn, userName, socketRooms, roomParticipants, roomRec, budget>>

\* POST /:id/leave: prisma.participant.update({data: {leftAt: new Date()}});
\* the update rejects when the row does not exist
RestLeave(u, r) ==
  /\ CanStart
  /\ Accept
  /\ partRec' = IF r \in DOMAIN roomRec /\ partRec[<<u, r>>].exists
                  THEN [partRec EXCEPT ![<<u, r>>].leftAt = "set"]
                  ELSE partRec
  /\ out' = <<>>
  /\ UNCHANGED <<conn, userName, socketRooms, roomParticipants, roomRec,
                 waitRec, pending>>

\* POST /:id/end: up to the room lookup
RestEnd(u, r) ==
  /\ CanStart
  /\ LET h == Handler("rest-end", u, r, None, 1, FindRoomOnly(r))
     IN  /\ h \notin pending
         /\ pending' = pending \cup {h}
  /\ Accept
  /\ out' = <<>>
  /\ UNCHANGED <<conn, userName, socketRooms, roomParticipants, roomRec,
                 partRec, waitRec>>

\* the host check, then prisma.room.update({data: {isActive: false}}); with
\* ~storeOk the lookup or the update rejects and nothing is written
RestEndCheck(h, storeOk) ==
  /\ h \in pending
  /\ h.kind = "rest-end"
  /\ h.stage = 1
  /\ IF ~storeOk \/ NotHost(h.res, h.c)
       THEN /\ pending' = pending \ {h}
            /\ UNCHANGED roomRec
       ELSE /\ pending' = (pending \ {h}) \cup
                 {Handler(h.kind, h.c, h.room, None, 2, Wrote(TRUE))}
            /\ roomRec' = [roomRec EXCEPT ![h.room].isActive = FALSE]
  /\ out' = <<>>
  /\ UNCHANGED <<conn, userName, socketRooms, roomParticipants, partRec,
                 waitRec, budget>>

\* prisma.participant.updateMany({where: {roomId, leftAt: null}, data: {leftAt: new Date()}})
MarkAllLeft(pr, r) ==
  [k \in DOMAIN pr |->
     IF k[2] = r /\ IsActivePart(pr[k]) THEN [pr[k] EXCEPT !.leftAt = "set"] ELSE pr[k]]

\* after the room update: the participants' rows
RestEndFinish(h, storeOk) ==
  /\ h \in pending
  /\ h.kind = "rest-end"
  /\ h.stage = 2
  /\ pending' = pending \ {h}
  /\ partRec' = IF storeOk THEN MarkAllLeft(partRec, h.room) ELSE partRec
  /\ out' = <<>>
  /\ UNCHANGED <<conn, userName, socketRooms, roomParticipants, roomRec,
                 waitRec, budget>>

\* POST /:id/waiting-room/:userId/approve by user u for user t: up to the
\* room lookup
RestApprove(u, r, t) ==
  /\ CanStart
  /\ LET h == Handler("rest-approve", u, r, t, 1, FindRoomWithCount(r))
     IN  /\ h \notin pending
         /\ pending' = pending \cup {h}
  /\ Accept
  /\ out' = <<>>
  /\ UNCHANGED <<conn, userName, socketRooms, roomParticipants, roomRec,
                 partRec, waitRec>>

\* if (room._count.participants >= room.maxParticipants): "Room is full"
RoomIsFull(res) == res.count >= res.room.maxParticipants

\* the lookup resolves or rejects; 404, 403 and the capacity check; then the
\* await of prisma.waitingRoom.update
RestApproveCheck(h, lookupOk, storeOk) ==
  /\ h \in pending
  /\ h.kind = "rest-approve"
  /\ h.stage = 1
  /\ IF ~lookupOk \/ NotHost(h.res, h.c) \/ RoomIsFull(h.res)
       THEN /\ pending' = pending \ {h}
            /\ UNCHANGED waitRec
       ELSE LET done == storeOk /\ CanApprove(waitRec, h.target, h.room)
            IN  /\ pending' = (pending \ {h}) \cup
                     {Handler(h.kind, h.c, h.room, h.target, 2, Wrote(done))}
                /\ waitRec' = IF done
                                THEN [waitRec EXCEPT ![<<h.target, h.room>>] = "APPROVED"]
                                ELSE waitRec
  /\ out' = <<>>
  /\ UNCHANGED <<conn, userName, socketRooms, roomParticipants, roomRec,
                 partRec, budget>>

\* after the waiting-room update: it rejected (500), or the await of
\* prisma.participant.create and the response
RestApproveCreate(h, storeOk) ==
  /\ h \in pending
  /\ h.kind = "rest-approve"
  /\ h.stage = 2
  /\ pending' = pending \ {h}
  /\ partRec' = IF h.res.ok /\ storeOk
                  THEN CreateParticipant(partRec, h.target, h.room)
                  ELSE partRec
  /\ out' = <<>>
  /\ UNCHANGED <<conn, userName, socketRooms, roomParticipants, roomRec,
                 waitRec, budget>>

(***************************************************************************)
(* Initial state: the socket server has just been set up; the store holds  *)
(* the rooms as POST / creates them (the host's HOST row with them).       *)
(***************************************************************************)
\* maxParticipants: result.data.maxParticipants ?? 10
DefaultMaxParticipants == 10

NewRoom(video) ==
  [isActive |-> TRUE, hostId |-> "H", videoEnabled |-> video,
   waitingRoom |-> FALSE, maxParticipants |-> DefaultMaxParticipants]

\* the store as room creation and REST joins leave it: the host's row in
\* every room, the guest's row in the rooms of gs
InitStore(video, gs) ==
  /\ roomRec = [r \in Rooms |-> NewRoom(video)]
  /\ partRec = [k \in Users \X Rooms |->
                  IF k[1] = "H" THEN ActivePart("HOST")
                  ELSE IF k[2] \in gs THEN ActivePart("GUEST") ELSE NoPart]
  /\ waitRec = [k \in Users \X Rooms |-> None]

\* the server once the connections of CS have authenticated (Connect); a
\* connection that has sent no command yet is in no group and has no
\* handler, so it does not matter when it connected
InitServer(CS, n) ==
  /\ conn = [c \in Conns |-> IF c \in CS THEN "connected" ELSE "new"]
  /\ userName = [c \in Conns |->
                   IF c \in CS THEN ResolveName(UserRow(UserOf(c))) ELSE None]
  /\ socketRooms = [c \in Conns |-> {}]
  /\ roomParticipants = EmptyMap
  /\ pending = {}
  /\ out = <<>>
  /\ budget = n

\* the steps of the real-time handlers for the commands of the connections
\* of CS that name a room of RS (join-room: a room id of JS)
SocketStep(CS, RS, JS) ==
  \/ \E c \in CS : Disconnect(c)
  \/ \E c \in CS, r \in JS : JoinRoom(c, r)
  \/ \E h \in pending, ok \in BOOLEAN : JoinResume(h, ok)
  \/ \E c \in CS, r \in RS : LeaveRoom(c, r)
  \/ \E c \in CS, r \in RS, b \in BOOLEAN : ToggleAudio(c, r, b)
  \/ \E c \in CS, r \in RS, b \in BOOLEAN : ToggleVideo(c, r, b)
  \/ \E c \in CS, r \in RS, t \in Users : HostMuteParticipant(c, r, t)
  \/ \E h \in pending, ok \in BOOLEAN : HostMuteResume(h, ok)
  \/ \E c \in CS, r \in RS, t \in Users : HostRemoveParticipant(c, r, t)
  \/ \E h \in pending, ok1 \in BOOLEAN, ok2 \in BOOLEAN : HostRemoveCheck(h, ok1, ok2)
  \/ \E h \in pending : HostRemoveFinish(h)

\* the steps of the REST routes for requests that name a room of RS
RestStep(RS) ==
  \/ \E u \in Users, r \in RS : RestJoin(u, r)
  \/ \E h \in pending, ok \in BOOLEAN : RestJoinResume(h, ok)
  \/ \E u \in Users, r \in RS : RestLeave(u, r)
  \/ \E u \in Users, r \in RS : RestEnd(u, r)
  \/ \E h \in pending, ok \in BOOLEAN : RestEndCheck(h, ok)
  \/ \E h \in pending, ok \in BOOLEAN : RestEndFinish(h, ok)

\* One room in use (and the id that names no room).
OneRoom == {"A", NoRoom}

\* The host and the guest, one socket each.
HostAndGuest == {"c1", "c2"}

Init ==
  /\ InitServer(HostAndGuest, MaxCmds)
  /\ \E video \in BOOLEAN, gs \in SUBSET {"A"} : InitStore(video, gs)

Next == SocketStep(HostAndGuest, {"A"}, OneRoom) \/ RestStep({"A"})

Spec == Init /\ [][Next]_vars

(***************************************************************************)
(* SpecLive: the presence layer alone.  All three sockets (two of them the *)
(* guest's), one room, and the handlers that never write the store:        *)
(* join-room, leave-room, disconnect, the toggles and host-mute.           *)
(***************************************************************************)
InitLive ==
  /\ InitServer(Conns, MaxLiveCmds)
  /\ \E video \in BOOLEAN : InitStore(video, Rooms)

NextLive ==
  \/ \E c \in Conns : Disconnect(c)
  \/ \E c \in Conns : JoinRoom(c, "A")
  \/ \E h \in pending, ok \in BOOLEAN : JoinResume(h, ok)
  \/ \E c \in Conns : LeaveRoom(c, "A")
  \/ \E c \in Conns, b \in BOOLEAN : ToggleAudio(c, "A", b)
  \/ \E c \in Conns, b \in BOOLEAN : ToggleVideo(c, "A", b)
  \/ \E c \in Conns, t \in Users : HostMuteParticipant(c, "A", t)
  \/ \E h \in pending, ok \in BOOLEAN : HostMuteResume(h, ok)

SpecLive == InitLive /\ [][NextLive]_vars

(***************************************************************************)
(* SpecRooms: join-room, leave-room and disconnect alone, by all three     *)
(* sockets on both rooms and on the id that names no room.  The guest's    *)
(* participant rows are drawn per room.                                    *)
(***************************************************************************)
InitRooms ==
  /\ InitServer(Conns, MaxRoomCmds)
  /\ \E gs \in SUBSET Rooms : InitStore(TRUE, gs)

NextRooms ==
  \/ \E c \in Conns : Disconnect(c)
  \/ \E c \in Conns, r \in RoomIds : JoinRoom(c, r)
  \/ \E h \in pending, ok \in BOOLEAN : JoinResume(h, ok)
  \/ \E c \in Conns, r \in RoomIds : LeaveRoom(c, r)

SpecRooms == InitRooms /\ [][NextRooms]_vars

(***************************************************************************)
(* SpecChat: chat-message beside the handlers that create and remove the   *)
(* sender's entry: join-room, leave-room, disconnect and the host's        *)
(* removal.  All three sockets, one room.                                  *)
(***************************************************************************)
\* Commands accepted in one run of SpecChat.
MaxChatCmds == 3

InitChat ==
  /\ InitServer(Conns, MaxChatCmds)
  /\ \E gs \in SUBSET {"A"} : InitStore(TRUE, gs)

NextChat ==
  \/ \E c \in Conns : Disconnect(c)
  \/ \E c \in Conns : JoinRoom(c, "A")
  \/ \E h \in pending, ok \in BOOLEAN : JoinResume(h, ok)
  \/ \E c \in Conns : LeaveRoom(c, "A")
  \/ \E c \in Conns, m \in Messages : ChatMessage(c, "A", m)
  \/ \E t \in Users : HostRemoveParticipant("c1", "A", t)
  \/ \E h \in pending, ok1 \in BOOLEAN, ok2 \in BOOLEAN : HostRemoveCheck(h, ok1, ok2)
  \/ \E h \in pending : HostRemoveFinish(h)

SpecChat == InitChat /\ [][NextChat]_vars

(***************************************************************************)
(* SpecHost: the host's moderation commands (mute, remove, approve) sent   *)
(* by the host and by the guest, for room A and for the id that names no   *)
(* room, beside join-room and disconnect.  Room A has its waiting room     *)
(* switched on; the guest's participant row and waiting-room entry are     *)
(* drawn.                                                                  *)
(***************************************************************************)
\* Commands accepted in one run of SpecHost.
MaxHostCmds == 2

\* POST / with waitingRoom: true (or PATCH /:id by the host)
WaitingRoomOn(room) == [room EXCEPT !.waitingRoom = TRUE]

\* a participant row whose leftAt is set (POST /:id/leave, host removal)
LeftPart(role) == [exists |-> TRUE, role |-> role, leftAt |-> "set"]

\* the store of a room with a waiting room: the host's row, the guest's row
\* one of ps and the guest's waiting-room entry one of ws
InitWaitStore(ps, ws) ==
  /\ roomRec = [r \in Rooms |-> WaitingRoomOn(NewRoom(TRUE))]
  /\ \E p \in ps :
       partRec = [k \in Users \X Rooms |->
                    IF k[1] = "H" THEN ActivePart("HOST") ELSE p]
  /\ \E w \in ws :
       waitRec = [k \in Users \X Rooms |-> IF k[1] = "H" THEN None ELSE w]

\* the steps of approve-waiting-participant sent by the connections of CS
\* for the room ids of RS
ApproveStep(CS, RS) ==
  \/ \E c \in CS, r \in RS, t \in Users : ApproveWaitingParticipant(c, r, t)
  \/ \E h \in pending, ok1 \in BOOLEAN, ok2 \in BOOLEAN : ApproveCheck(h, ok1, ok2)
  \/ \E h \in pending, ok \in BOOLEAN : ApproveCreate(h, ok)
  \/ \E h \in pending : ApproveFinish(h)

InitHost ==
  /\ InitServer(HostAndGuest, MaxHostCmds)
  /\ InitWaitStore({NoPart, ActivePart("GUEST")}, {None, "PENDING"})

NextHost ==
  \/ \E c \in HostAndGuest : Disconnect(c)
  \/ \E c \in HostAndGuest : JoinRoom(c, "A")
  \/ \E h \in pending, ok \in BOOLEAN : JoinResume(h, ok)
  \/ \E c \in HostAndGuest, r \in OneRoom, t \in Users : HostMuteParticipant(c, r, t)
  \/ \E h \in pending, ok \in BOOLEAN : HostMuteResume(h, ok)
  \/ \E c \in HostAndGuest, r \in OneRoom, t \in Users : HostRemoveParticipant(c, r, t)
  \/ \E h \in pending, ok1 \in BOOLEAN, ok2 \in BOOLEAN : HostRemoveCheck(h, ok1, ok2)
  \/ \E h \in pending : HostRemoveFinish(h)
  \/ ApproveStep(HostAndGuest, OneRoom)

SpecHost == InitHost /\ [][NextHost]_vars

(***************************************************************************)
(* SpecWait: the waiting room.  The guest asks to join over REST, leaves   *)
(* over REST, the host approves and mutes, and both use join-room,         *)
(* leave-room, disconnect, chat-message and the toggles.  The guest's      *)
(* participant row is drawn: none, active (joined before the waiting room  *)
(* was switched on) or left.                                               *)
(***************************************************************************)
\* Commands accepted in one run of SpecWait.
MaxWaitCmds == 3

\* the one text the chat-message steps of SpecWait and SpecOrder carry
Hi == <<"h", " ", "i">>

InitWait ==
  /\ InitServer(HostAndGuest, MaxWaitCmds)
  /\ InitWaitStore({NoPart, ActivePart("GUEST"), LeftPart("GUEST")}, {None, "PENDING"})

NextWait ==
  \/ \E c \in HostAndGuest : Disconnect(c)
  \/ \E c \in HostAndGuest : JoinRoom(c, "A")
  \/ \E h \in pending, ok \in BOOLEAN : JoinResume(h, ok)
  \/ \E c \in HostAndGuest : LeaveRoom(c, "A")
  \/ ApproveStep({"c1"}, {"A"})
  \/ RestJoin("G", "A")
  \/ \E h \in pending, ok \in BOOLEAN : RestJoinResume(h, ok)
  \/ RestLeave("G", "A")
  \/ \E c \in HostAndGuest : ChatMessage(c, "A", Hi)
  \/ \E c \in HostAndGuest, b \in BOOLEAN : ToggleAudio(c, "A", b)
  \/ \E c \in HostAndGuest, b \in BOOLEAN : ToggleVideo(c, "A", b)
  \/ \E t \in Users : HostMuteParticipant("c1", "A", t)
  \/ \E h \in pending, ok \in BOOLEAN : HostMuteResume(h, ok)

SpecWait == InitWait /\ [][NextWait]_vars

(***************************************************************************)
(* SpecAuth: connections from the handshake on.  Each of the three sockets *)
(* presents no token, an invalid one or a valid one; the user lookup finds *)
(* the row, finds none, or rejects.  Then join-room, leave-room,           *)
(* chat-message and disconnect.                                            *)
(***************************************************************************)
\* Commands accepted in one run of SpecAuth.
MaxAuthCmds == 2

InitAuth ==
  /\ InitServer({}, MaxAuthCmds)
  /\ InitStore(TRUE, {"A"})

NextAuth ==
  \/ \E c \in Conns, token \in Tokens, ok \in BOOLEAN :
       \E row \in UserRows(UserOf(c)) : Connect(c, token, ok, row)
  \/ \E c \in Conns : Disconnect(c)
  \/ \E c \in Conns : JoinRoom(c, "A")
  \/ \E h \in pending, ok \in BOOLEAN : JoinResume(h, ok)
  \/ \E c \in Conns : LeaveRoom(c, "A")
  \/ \E c \in Conns : ChatMessage(c, "A", Hi)

SpecAuth == InitAuth /\ [][NextAuth]_vars

(***************************************************************************)
(* SpecGate: admission to a room through the store.  The REST joins by id  *)
(* and by code, the REST leave, the REST approval and the host's real-time *)
(* approval, for room A.  The room's waiting-room flag and capacity are    *)
(* drawn (POST / takes both from the request); the host's row is active or *)
(* left, the guest's row is absent or left, and with the waiting room on   *)
(* the guest may be waiting.                                               *)
(***************************************************************************)
\* Commands accepted in one run of SpecGate.
MaxGateCmds == 3

\* maxParticipants of the rooms of SpecGate: a room for one, and the default
Capacities == {1, DefaultMaxParticipants}

\* POST / with waitingRoom w and maxParticipants m
RoomWith(w, m) == [NewRoom(TRUE) EXCEPT !.waitingRoom = w, !.maxParticipants = m]

InitGate ==
  /\ InitServer({"c1"}, MaxGateCmds)
  /\ \E w \in BOOLEAN, m \in Capacities :
       /\ roomRec = [r \in Rooms |-> RoomWith(w, m)]
       /\ \E wg \in IF w THEN {None, "PENDING"} ELSE {None} :
            waitRec = [k \in Users \X Rooms |-> IF k[1] = "H" THEN None ELSE wg]
  /\ \E ph \in {ActivePart("HOST"), LeftPart("HOST")}, pg \in {NoPart, LeftPart("GUEST")} :
       partRec = [k \in Users \X Rooms |-> IF k[1] = "H" THEN ph ELSE pg]

NextGate ==
  \/ \E u \in Users : RestJoin(u, "A")
  \/ \E h \in pending, ok \in BOOLEAN : RestJoinResume(h, ok)
  \/ \E u \in Users : RestJoinByCode(u, "A")
  \/ \E h \in pending, ok \in BOOLEAN : RestJoinByCodeResume(h, ok)
  \/ \E u \in Users : RestLeave(u, "A")
  \/ \E u \in Users : RestApprove(u, "A", "G")
  \/ \E h \in pending, ok1 \in BOOLEAN, ok2 \in BOOLEAN : RestApproveCheck(h, ok1, ok2)
  \/ \E h \in pending, ok \in BOOLEAN : RestApproveCreate(h, ok)
  \/ ApproveStep({"c1"}, {"A"})

SpecGate == InitGate /\ [][NextGate]_vars

(***************************************************************************)
(* SpecIds: chat messages with their ids.  The host and the guest join     *)
(* room A and send chat messages; each message reads the clock and the     *)
(* random generator.                                                       *)
(***************************************************************************)
\* Commands accepted in one run of SpecIds.
MaxIdCmds == 3

InitIds ==
  /\ InitServer(HostAndGuest, MaxIdCmds)
  /\ InitStore(TRUE, {"A"})

NextIds ==
  \/ \E c \in HostAndGuest : JoinRoom(c, "A")
  \/ \E h \in pending, ok \in BOOLEAN : JoinResume(h, ok)
  \/ \E c \in HostAndGuest, m \in Messages, now \in Ticks, rnd \in Suffixes :
       ChatMessageAt(c, "A", m, now, rnd)

SpecIds == InitIds /\ [][NextIds]_vars

(***************************************************************************)
(* SpecOrder: the commands that broadcast to the room, sent by the host    *)
(* and the guest once they have joined: chat-message, the toggles, and the *)
(* host's mute and remove.                                                 *)
(***************************************************************************)
\* Commands accepted in one run of SpecOrder.
MaxOrderCmds == 3

InitOrder ==
  /\ InitServer(HostAndGuest, MaxOrderCmds)
  /\ InitStore(TRUE, {"A"})

NextOrder ==
  \/ \E c \in HostAndGuest : JoinRoom(c, "A")
  \/ \E h \in pending, ok \in BOOLEAN : JoinResume(h, ok)
  \/ \E c \in HostAndGuest : ChatMessage(c, "A", Hi)
  \/ \E c \in HostAndGuest, b \in BOOLEAN : ToggleAudio(c, "A", b)
  \/ \E c \in HostAndGuest, b \in BOOLEAN : ToggleVideo(c, "A", b)
  \/ \E t \in Users : HostMuteParticipant("c1", "A", t)
  \/ \E h \in pending, ok \in BOOLEAN : HostMuteResume(h, ok)
  \/ \E t \in Users : HostRemoveParticipant("c1", "A", t)
  \/ \E h \in pending, ok1 \in BOOLEAN, ok2 \in BOOLEAN : HostRemoveCheck(h, ok1, ok2)
  \/ \E h \in pending : HostRemoveFinish(h)

SpecOrder == InitOrder /\ [][NextOrder]_vars

(***************************************************************************)
(* POST / (room creation) and SpecCreate: a room from its creation on.     *)
(* Either user creates room A, joins it over REST and over join-room.      *)
(***************************************************************************)
\* Commands accepted in one run of SpecCreate.
MaxCreateCmds == 3

\* the data of prisma.room.create: hostId is the authenticated user, the
\* settings take their defaults
CreatedRoom(u) == [NewRoom(TRUE) EXCEPT !.hostId = u]

\* prisma.participant.create({data: {userId, roomId: room.id, role: "HOST"}})
CreateHost(pr, u, r) == [pr EXCEPT ![<<u, r>>] = ActivePart("HOST")]

\* POST /: the body is valid; up to the await of getUniqueRoomCode().  r is
\* the id the store will give the room.
CreateRoom(u, r) ==
  /\ CanStart
  /\ r \notin DOMAIN roomRec
  /\ \A g \in pending : g.kind # "create-room"
  /\ pending' = pending \cup {Handler("create-room", u, r, None, 1, Wrote(TRUE))}
  /\ Accept
  /\ out' = <<>>
  /\ UNCHANGED <<conn, userName, socketRooms, roomParticipants, roomRec,
                 partRec, waitRec>>

\* the code lookup has returned or rejected (-> 500); then
\* prisma.room.create, which writes the room or rejects
CreateRoomRecord(h, lookupOk, storeOk) ==
  /\ h \in pending
  /\ h.kind = "create-room"
  /\ h.stage = 1
  /\ IF ~lookupOk
       THEN /\ pending' = pending \ {h}
            /\ UNCHANGED roomRec
       ELSE /\ pending' = (pending \ {h}) \cup
                            {Handler(h.kind, h.c, h.room, None, 2, Wrote(storeOk))}
            /\ roomRec' = IF storeOk
                            THEN MapSet(roomRec, h.room, CreatedRoom(h.c))
                            ELSE roomRec
  /\ out' = <<>>
  /\ UNCHANGED <<conn, userName, socketRooms, roomParticipants, partRec,
                 waitRec, budget>>

\* room.create has rejected (-> 500), or it has returned: then
\* prisma.participant.create for the host, which writes the row or rejects
\* (-> 500); the response is the last thing the route does
CreateRoomHost(h, storeOk) ==
  /\ h \in pending
  /\ h.kind = "create-room"
  /\ h.stage = 2
  /\ pending' = pending \ {h}
  /\ partRec' = IF h.res.ok /\ storeOk /\ CanCreate(partRec, h.c, h.room)
                  THEN CreateHost(partRec, h.c, h.room)
                  ELSE partRec
  /\ out' = <<>>
  /\ UNCHANGED <<conn, userName, socketRooms, roomParticipants, roomRec,
                 waitRec, budget>>

\* the server is up, the store holds no room yet
InitCreate ==
  /\ InitServer(HostAndGuest, MaxCreateCmds)
  /\ roomRec = EmptyMap
  /\ partRec = [k \in Users \X Rooms |-> NoPart]
  /\ waitRec = [k \in Users \X Rooms |-> None]

NextCreate ==
  \/ \E u \in Users : CreateRoom(u, "A")
  \/ \E h \in pending, ok1 \in BOOLEAN, ok2 \in BOOLEAN : CreateRoomRecord(h, ok1, ok2)
  \/ \E h \in pending, ok \in BOOLEAN : CreateRoomHost(h, ok)
  \/ \E u \in Users : RestJoin(u, "A")
  \/ \E h \in pending, ok \in BOOLEAN : RestJoinResume(h, ok)
  \/ \E c \in HostAndGuest : JoinRoom(c, "A")
  \/ \E h \in pending, ok \in BOOLEAN : JoinResume(h, ok)
  \/ \E c \in HostAndGuest : Disconnect(c)

SpecCreate == InitCreate /\ [][NextCreate]_vars

(***************************************************************************)
(* SpecFrame: the media flags of the presence entries.  The host and the   *)
(* guest join rooms A and B and send toggle-audio, toggle-video and        *)
(* host-mute-participant.                                                  *)
(***************************************************************************)
\* Commands accepted in one run of SpecFrame.
MaxFrameCmds == 4

InitFrame ==
  /\ InitServer(HostAndGuest, MaxFrameCmds)
  /\ InitStore(TRUE, Rooms)

NextFrame ==
  \/ \E c \in HostAndGuest, r \in Rooms : JoinRoom(c, r)
  \/ \E h \in pending, ok \in BOOLEAN : JoinResume(h, ok)
  \/ \E c \in HostAndGuest, r \in Rooms, b \in BOOLEAN : ToggleAudio(c, r, b)
  \/ \E c \in HostAndGuest, r \in Rooms, b \in BOOLEAN : ToggleVideo(c, r, b)
  \/ \E c \in HostAndGuest, r \in Rooms, t \in Users : HostMuteParticipant(c, r, t)
  \/ \E h \in pending, ok \in BOOLEAN : HostMuteResume(h, ok)

SpecFrame == InitFrame /\ [][NextFrame]_vars

(***************************************************************************)
(* SpecAnswer: join-room from the command to its answer.  The host and the *)
(* guest send join-room for room A and for the id that names no room,      *)
(* leave, disconnect, and the guest leaves over REST.  The store call of a *)
(* suspended join-room handler returns or fails in the end: the event loop *)
(* then runs the rest of the handler, which is weak fairness of            *)
(* JoinResume.                                                             *)
(***************************************************************************)
\* Commands accepted in one run of SpecAnswer.
MaxAnswerCmds == 3

InitAnswer ==
  /\ InitServer(HostAndGuest, MaxAnswerCmds)
  /\ \E gs \in SUBSET {"A"} : InitStore(TRUE, gs)

\* the promise of prisma.room.findUnique settles and the handler continues
JoinSettles == \E h \in pending, ok \in BOOLEAN : JoinResume(h, ok)

NextAnswer ==
  \/ \E c \in HostAndGuest, r \in OneRoom : JoinRoom(c, r)
  \/ JoinSettles
  \/ \E c \in HostAndGuest : LeaveRoom(c, "A")
  \/ \E c \in HostAndGuest : Disconnect(c)
  \/ RestLeave("G", "A")

SpecAnswer == InitAnswer /\ [][NextAnswer]_vars /\ WF_vars(JoinSettles)

(***************************************************************************)
(* Properties                                                              *)
(***************************************************************************)
\* the last step emitted event ev
Emitted(ev) == \E i \in DOMAIN out : out[i].ev = ev

\* C1: after any sequence of join-room, leave-room and disconnect commands
\* (SpecRooms) the registry has a room as a key only while the room has at
\* least one entry: no key maps to an empty collection.
C1_NoEmptyRoom ==
  \A r \in DOMAIN roomParticipants : DOMAIN roomParticipants[r] # {}

\* a disconnect has just removed the last entry of a room that still had
\* one, and the key went with it, while another room keeps its entries
C1_Witness ==
  /\ out # <<>>
  /\ out[1].ev = "participant-left"
  /\ conn[out[1].by] = "closed"
  /\ out[1].room \notin DOMAIN roomParticipants
  /\ DOMAIN roomParticipants # {}

\* C2: under all commands, host-remove-participant included (Spec), a room
\* key exists in the registry if and only if the room has an entry.
C2_KeyIffEntry ==
  \A r \in RoomIds :
    (r \in DOMAIN roomParticipants) <=> (\E u \in Users : HasEntry(roomParticipants, r, u))

\* C3: in every state reachable under real-time commands and store writes
\* (Spec), a presence entry for (r, u) exists only if the store holds a
\* participant record for (u, r) whose leftAt is null.
C3_EntryOnlyIfActiveRecord ==
  \A r \in DOMAIN roomParticipants :
    \A u \in DOMAIN roomParticipants[r] :
      r \in Rooms /\ IsActivePart(partRec[<<u, r>>])

\* C4: whenever no handler is suspended on a store call (SpecLive), each
\* presence entry (r, u) has a live connection of u in r's broadcast group;
\* so a connection that disconnects while its join-room awaits the store
\* leaves no entry behind.
C4_EntryHasLiveMember ==
  pending = {} =>
    \A r \in DOMAIN roomParticipants :
      \A u \in DOMAIN roomParticipants[r] :
        \E c \in Conns : UserOf(c) = u /\ Live(c) /\ r \in socketRooms[c]

\* the handler h of a join-room command finishes in this step
JoinEnds(h) == h \in pending /\ h.kind = "join-room" /\ h \notin pending'

\* the step leaves the registry and every broadcast group as they were and
\* emits one event only, the error msg, to connection c only
FailsWith(c, msg) ==
  /\ roomParticipants' = roomParticipants
  /\ socketRooms' = socketRooms
  /\ out' = <<ErrorEv(c, msg)>>

\* the store holds an active participant record of connection c's user for room r
ActiveRecord(c, r) == r \in Rooms /\ IsActivePart(partRec[<<UserOf(c), r>>])

\* C5 as stated: a join-room by u for r whose lookup finds no participant
\* record of (u, r) with leftAt null never succeeds (no room-joined, no
\* entry inserted, the connection not added to the group), and the caller
\* gets the error 'You are not a participant in this room'.  (Read in the
\* claim's favour: for a room that has a record and a lookup that resolved.)
C5_AlwaysNotAParticipant ==
  [][ /\ \A h \in pending' \ pending :
           h.kind = "join-room" => (h.res.part = None <=> ~ActiveRecord(h.c, h.room))
      /\ \A h \in pending :
           JoinEnds(h) /\ h.res.part = None /\ h.res.found =>
             \/ FailsWith(h.c, "Failed to join room")
             \/ FailsWith(h.c, "You are not a participant in this room") ]_vars

\* C5 as the code has it: such a join-room never succeeds and the caller
\* gets exactly one error; the error is 'You are not a participant in this
\* room' when the lookup resolved and found the room active, and otherwise
\* 'Room not found' (no room record), 'Room is not active' (inactive room)
\* or 'Failed to join room' (the lookup rejected).
C5_NeverJoinsWithoutRecord ==
  [][ /\ \A h \in pending' \ pending :
           h.kind = "join-room" => (h.res.part = None <=> ~ActiveRecord(h.c, h.room))
      /\ \A h \in pending :
           JoinEnds(h) /\ h.res.part = None =>
             \/ FailsWith(h.c, "Failed to join room")
             \/ ~h.res.found /\ FailsWith(h.c, "Room not found")
             \/ h.res.found /\ ~h.res.room.isActive
                  /\ FailsWith(h.c, "Room is not active")
             \/ h.res.found /\ h.res.room.isActive
                  /\ FailsWith(h.c, "You are not a participant in this room") ]_vars

\* the guest, whose record in the active room A has leftAt set, has just
\* been refused as not a participant and is in no group and has no entry
C5_Witness ==
  /\ out = <<ErrorEv("c2", "You are not a participant in this room")>>
  /\ partRec[<<"G", "A">>].exists
  /\ partRec[<<"G", "A">>].leftAt = "set"
  /\ roomRec["A"].isActive
  /\ socketRooms["c2"] = {}
  /\ ~HasEntry(roomParticipants, "A", "G")

\* C6: a join-room that fails for any reason (no room record, inactive room,
\* no active participant record, the store call throws) leaves the registry
\* and every broadcast group unchanged and emits exactly one event, an error
\* to the caller; the reasons take precedence in the order room-not-found,
\* room-inactive, not-a-participant; and a join with one of these reasons
\* does fail.
C6_FailedJoinChangesNothing ==
  [][ \A h \in pending :
        JoinEnds(h) =>
          LET reason == IF ~h.res.found THEN "Room not found"
                        ELSE IF ~h.res.room.isActive THEN "Room is not active"
                        ELSE IF h.res.part = None
                          THEN "You are not a participant in this room"
                        ELSE "none"
          IN  \/ FailsWith(h.c, "Failed to join room")
              \/ reason # "none" /\ FailsWith(h.c, reason)
              \/ /\ reason = "none"
                 /\ out' # <<>>
                 /\ out'[1].ev = "room-joined" ]_vars

\* the guest, who has no participant record for the ended room A, has just
\* been refused with the error of the check that comes first
C6_Witness ==
  /\ out = <<ErrorEv("c2", "Room is not active")>>
  /\ ~roomRec["A"].isActive
  /\ ~IsActivePart(partRec[<<"G", "A">>])
  /\ roomParticipants = EmptyMap
  /\ \A c \in Conns : socketRooms[c] = {}

\* C7: after every successful join-room by u for r (SpecLive: first joins
\* and repeat joins, from the same or the guest's other connection, after
\* toggles and host mutes) the registry holds exactly one entry for (r, u),
\* with muted = false, videoOff = NOT room.videoEnabled and the role of u's
\* persisted participant record, whatever flags the previous entry had.
C7_JoinResetsEntry ==
  (out # <<>> /\ out[1].ev = "room-joined") =>
    LET r == out[1].room
        u == out[1].id
    IN  /\ HasEntry(roomParticipants, r, u)
        /\ Cardinality({x \in DOMAIN roomParticipants[r] :
                          roomParticipants[r][x].odId = u}) = 1
        /\ roomParticipants[r][u].odId = u
        /\ roomParticipants[r][u].odIsMuted = FALSE
        /\ roomParticipants[r][u].odIsVideoOff = ~roomRec[r].videoEnabled
        /\ roomParticipants[r][u].odRole = partRec[<<u, r>>].role

\* the guest has just joined again from its second connection while its
\* first one is still in the group, in a room with video disabled
C7_Witness ==
  /\ out # <<>>
  /\ out[1].ev = "room-joined"
  /\ out[1].by = "c3"
  /\ Live("c2")
  /\ "A" \in socketRooms["c2"]
  /\ ~roomRec["A"].videoEnabled
  /\ budget = 0

\* C8: a successful join-room emits room-joined first and to the joining
\* connection only, and then participant-joined to the other live
\* connections of the room's group and never to the joining connection;
\* no other step emits either event.
C8_JoinedBeforeBroadcast ==
  (Emitted("room-joined") \/ Emitted("participant-joined")) =>
    /\ Len(out) = 2
    /\ out[1].ev = "room-joined"
    /\ out[1].to = {out[1].by}
    /\ out[2].ev = "participant-joined"
    /\ out[2].by = out[1].by
    /\ out[2].room = out[1].room
    /\ out[2].to = Group(out[1].room) \ {out[1].by}
    /\ out[1].by \notin out[2].to

\* the guest has just joined from one connection while the host and the
\* guest's other connection are in the group: both are told
C8_Witness ==
  /\ Len(out) = 2
  /\ out[1].ev = "room-joined"
  /\ out[1].to = {"c2"}
  /\ out[2].ev = "participant-joined"
  /\ out[2].to = {"c1", "c3"}

\* C9: the participants list of room-joined is the full set of the room's
\* presence entries once the joiner's own entry is inserted: the joiner's
\* entry, the entry of every other user in the room's registry, and no other.
C9_SnapshotIsRegistry ==
  (out # <<>> /\ out[1].ev = "room-joined") =>
    LET r == out[1].room
        u == out[1].id
    IN  /\ r \in DOMAIN roomParticipants
        /\ u \in DOMAIN roomParticipants[r]
        /\ roomParticipants[r][u] \in out[1].data
        /\ \A x \in DOMAIN roomParticipants[r] : roomParticipants[r][x] \in out[1].data
        /\ \A e \in out[1].data :
             e.odId \in DOMAIN roomParticipants[r] /\ roomParticipants[r][e.odId] = e

\* the guest has just joined after the host: its snapshot holds the host's
\* entry and its own
C9_Witness ==
  /\ out # <<>>
  /\ out[1].ev = "room-joined"
  /\ out[1].id = "G"
  /\ {e.odId : e \in out[1].data} = {"H", "G"}
  /\ "A" \in socketRooms["c1"]

\* C10: concurrent join-room commands of two distinct eligible users on the
\* same room, their lookups interleaved in any way (Spec: one connection
\* per user), lose and duplicate nothing: a user whose join has completed
\* and who has not left, disconnected or been removed since (its live
\* connection is in the room's group) has exactly one entry in the room.
C10_NoLostEntry ==
  \A c \in HostAndGuest :
    \A r \in Rooms :
      (Live(c) /\ r \in socketRooms[c]) =>
        /\ HasEntry(roomParticipants, r, UserOf(c))
        /\ Cardinality({x \in DOMAIN roomParticipants[r] :
                          roomParticipants[r][x].odId = UserOf(c)}) = 1

\* the run's two commands were the joins of the host and of the guest;
\* the second has just completed and both users have their entry
C10_Witness ==
  /\ budget = 0
  /\ out # <<>>
  /\ out[1].ev = "room-joined"
  /\ "A" \in socketRooms["c1"]
  /\ "A" \in socketRooms["c2"]
  /\ DOMAIN roomParticipants["A"] = {"H", "G"}

\* C11: the commands of one connection are processed to completion in
\* arrival order (SpecChat): while the join-room of a connection is still
\* suspended on its store call, no later leave-room of that connection for
\* the room takes effect (so that join-room then leave-room ends with the
\* user out of the room), and no later chat-message of that connection is
\* rejected as not-in-room when the join then succeeds.
C11_CommandsInArrivalOrder ==
  [][ \A h \in pending :
        h.kind = "join-room" =>
          /\ ~LeaveRoom(h.c, h.room)
          /\ \A m \in Messages :
               ~(/\ ChatMessage(h.c, h.room, m)
                 /\ JoinOutcome(h.res) = "ok"
                 /\ out' = <<ErrorEv(h.c, "You are not in this room")>>) ]_vars

\* C12: after a leave-room(r) by a connection of user u that is in r's
\* group while u has an entry in r (SpecRooms): the connection is out of r's
\* group, the registry has no entry for (r, u), the room key is gone if the
\* room became empty, and the one event of the step is a participant-left
\* with u's id addressed to every other live connection of r's group and not
\* to the leaving connection.
C12_LeaveRemovesPresence ==
  [][ \A c \in Conns :
        \A r \in Rooms :
          (/\ LeaveRoom(c, r)
           /\ r \in socketRooms[c]
           /\ HasEntry(roomParticipants, r, UserOf(c))) =>
            /\ r \notin socketRooms'[c]
            /\ ~HasEntry(roomParticipants', r, UserOf(c))
            /\ r \in DOMAIN roomParticipants' => DOMAIN roomParticipants'[r] # {}
            /\ (DOMAIN roomParticipants[r] = {UserOf(c)}) => r \notin DOMAIN roomParticipants'
            /\ Len(out') = 1
            /\ out'[1].ev = "participant-left"
            /\ out'[1].id = UserOf(c)
            /\ out'[1].room = r
            /\ out'[1].to = {d \in Conns \ {c} : Live(d) /\ r \in socketRooms[d]}
            /\ c \notin out'[1].to ]_vars

\* the guest's connection c2 has just left room A, where the host stays:
\* the host's connection is told and the host's entry is the only one left
C12_Witness ==
  /\ out = << Ev("participant-left", {"c1"}, "c2", "A", "G", None) >>
  /\ \A c \in Conns : Live(c)
  /\ pending = {}
  /\ "A" \notin socketRooms["c2"]
  /\ DOMAIN roomParticipants = {"A"}
  /\ DOMAIN roomParticipants["A"] = {"H"}
  /\ budget = 0

\* connection c disconnects in this step
Disconnects(c) == Live(c) /\ conn'[c] = "closed"

\* C13: when a connection that has joined rooms A and B (and left neither)
\* disconnects (SpecRooms), then after the disconnect handler its user has
\* no entry in A and none in B, neither room is left as an empty key, and
\* for each of the two rooms a participant-left event with the user's id
\* is addressed to the remaining connections of the room's group.
C13_DisconnectLeavesBothRooms ==
  [][ \A c \in Conns :
        (Disconnects(c) /\ socketRooms[c] = Rooms) =>
          \A r \in Rooms :
            /\ ~HasEntry(roomParticipants', r, UserOf(c))
            /\ r \in DOMAIN roomParticipants' => DOMAIN roomParticipants'[r] # {}
            /\ \E i \in DOMAIN out' :
                 /\ out'[i].ev = "participant-left"
                 /\ out'[i].room = r
                 /\ out'[i].id = UserOf(c)
                 /\ out'[i].to = {d \in Conns \ {c} : Live(d) /\ r \in socketRooms[d]} ]_vars

\* C14: a disconnect cleans up exactly the rooms the disconnecting
\* connection itself had joined and not left (SpecRooms): the user's entry
\* is removed and participant-left is emitted for those rooms only; in a
\* room the connection never joined the user's entry stays as it was and no
\* participant-left is emitted, also when the entry is there through
\* another live connection of the same user.
C14_DisconnectByMembership ==
  [][ \A c \in Conns :
        Disconnects(c) =>
          \A r \in RoomIds :
            IF r \in socketRooms[c]
              THEN /\ ~HasEntry(roomParticipants', r, UserOf(c))
                   /\ HasEntry(roomParticipants, r, UserOf(c)) =>
                        \E i \in DOMAIN out' :
                          out'[i].ev = "participant-left" /\ out'[i].room = r
              ELSE /\ HasEntry(roomParticipants, r, UserOf(c)) =>
                        /\ HasEntry(roomParticipants', r, UserOf(c))
                        /\ roomParticipants'[r][UserOf(c)] = roomParticipants[r][UserOf(c)]
                   /\ \A i \in DOMAIN out' : out'[i].room # r ]_vars

\* C15: every execution of the leave-room handler and of the disconnect
\* handler (Spec, beside the routes and handlers that do write the store)
\* leaves the room records, the participant records (leftAt included) and
\* the waiting-room entries as they were.
C15_LeaveKeepsStore ==
  [][ \A c \in Conns :
        (Disconnects(c) \/ \E r \in RoomIds : LeaveRoom(c, r)) =>
          /\ roomRec' = roomRec
          /\ partRec' = partRec
          /\ waitRec' = waitRec ]_vars

\* the guest has joined room A and has just left it by leave-room: its
\* entry is gone and its participant record still has leftAt null
C15_Witness ==
  /\ out = << Ev("participant-left", {}, "c2", "A", "G", None) >>
  /\ Live("c2")
  /\ pending = {}
  /\ budget = 0
  /\ roomParticipants = EmptyMap
  /\ IsActivePart(partRec[<<"G", "A">>])

\* a text with no character other than white space (the empty text included)
IsBlankText(m) == \A i \in DOMAIN m : m[i] \in WhiteSpace

\* C16: a chat-message whose text is empty or only white space (SpecChat)
\* produces no event at all - no chat-message to any connection, no error to
\* the sender - whether or not the sender has an entry in the room, and
\* changes no state.
C16_BlankChatIsSilent ==
  [][ \A c \in Conns :
        \A m \in Messages :
          (ChatMessage(c, "A", m) /\ IsBlankText(m)) =>
            /\ out' = <<>>
            /\ roomParticipants' = roomParticipants
            /\ socketRooms' = socketRooms ]_vars

\* the guest, joined to room A, has just sent a blank text: the run's second
\* command is spent, nobody has disconnected, no handler is suspended and
\* nothing was emitted (every other handler either emits or stays suspended)
C16_Witness ==
  /\ budget = MaxChatCmds - 2
  /\ pending = {}
  /\ out = <<>>
  /\ \A c \in Conns : Live(c)
  /\ HasEntry(roomParticipants, "A", "G")
  /\ "A" \in socketRooms["c2"]

\* C17: a chat-message with a text that is not blank from a user who has no
\* entry in the room (SpecChat: never joined, left, joined on a connection
\* that has gone, removed by the host) emits one event only, an error to the
\* sender only, and no chat-message.
C17_ChatNeedsEntry ==
  [][ \A c \in Conns :
        \A m \in Messages :
          (/\ ChatMessage(c, "A", m)
           /\ ~IsBlankText(m)
           /\ ~HasEntry(roomParticipants, "A", UserOf(c))) =>
            /\ Len(out') = 1
            /\ out'[1].ev = "error"
            /\ out'[1].to = {c}
            /\ out'[1].data = "You are not in this room" ]_vars

\* the guest, removed from room A by the host, has just been refused
C17_Witness ==
  /\ out = <<ErrorEv("c2", "You are not in this room")>>
  /\ partRec[<<"G", "A">>].leftAt = "set"
  /\ ~HasEntry(roomParticipants, "A", "G")
  /\ Live("c2")
  /\ budget = 0

\* C18: every accepted chat-message (text not blank, sender's user has an
\* entry in the room; SpecChat) emits one chat-message event with the
\* trimmed text, addressed to every live connection of the room's group,
\* the sending connection among them.
C18_ChatReachesGroupAndSender ==
  [][ \A c \in Conns :
        \A m \in Messages :
          (/\ ChatMessage(c, "A", m)
           /\ ~IsBlankText(m)
           /\ HasEntry(roomParticipants, "A", UserOf(c))) =>
            /\ Len(out') = 1
            /\ out'[1].ev = "chat-message"
            /\ out'[1].data = Trim(m)
            /\ out'[1].to = Group("A")
            /\ c \in out'[1].to ]_vars

\* C19: a toggle-audio or toggle-video from a user with no entry in the
\* room (SpecLive) is a silent no-op: the registry is unchanged and no event
\* is emitted - no broadcast, no error to the sender.
C19_ToggleWithoutEntryIsSilent ==
  [][ \A c \in Conns :
        \A b \in BOOLEAN :
          (/\ ToggleAudio(c, "A", b) \/ ToggleVideo(c, "A", b)
           /\ ~HasEntry(roomParticipants, "A", UserOf(c))) =>
            /\ roomParticipants' = roomParticipants
            /\ socketRooms' = socketRooms
            /\ out' = <<>> ]_vars

\* the run's first command was a toggle of a user without an entry: it is
\* spent, nobody has disconnected, no handler is suspended, the registry is
\* empty and nothing was emitted (every other handler emits or is suspended)
C19_Witness ==
  /\ budget = MaxLiveCmds - 1
  /\ pending = {}
  /\ out = <<>>
  /\ \A c \in Conns : Live(c)
  /\ roomParticipants = EmptyMap

\* the other live connections of room A's group
OthersInGroup(c) == {d \in Conns \ {c} : Live(d) /\ "A" \in socketRooms[d]}

\* C20: a toggle-audio(r, b) (toggle-video(r, b)) from a user u who has an
\* entry in r (SpecLive) sets the entry's muted (videoOff) flag to b,
\* changes nothing else in the registry, and emits one event,
\* participant-audio-changed (participant-video-changed) with u's id and b,
\* addressed to every other live connection of r's group and not to the sender.
C20_ToggleSetsFlagAndTellsOthers ==
  [][ \A c \in Conns :
        \A b \in BOOLEAN :
          HasEntry(roomParticipants, "A", UserOf(c)) =>
            /\ ToggleAudio(c, "A", b) =>
                 /\ roomParticipants'["A"][UserOf(c)].odIsMuted = b
                 /\ roomParticipants' =
                      [roomParticipants EXCEPT !["A"][UserOf(c)].odIsMuted = b]
                 /\ out' = << Ev("participant-audio-changed", OthersInGroup(c),
                                 c, "A", UserOf(c), b) >>
            /\ ToggleVideo(c, "A", b) =>
                 /\ roomParticipants'["A"][UserOf(c)].odIsVideoOff = b
                 /\ roomParticipants' =
                      [roomParticipants EXCEPT !["A"][UserOf(c)].odIsVideoOff = b]
                 /\ out' = << Ev("participant-video-changed", OthersInGroup(c),
                                 c, "A", UserOf(c), b) >> ]_vars

\* the guest, in room A with the host, has just muted itself: the host's
\* connection is told and the guest's entry is muted
C20_Witness ==
  /\ out = << Ev("participant-audio-changed", {"c1"}, "c2", "A", "G", TRUE) >>
  /\ HasEntry(roomParticipants, "A", "G")
  /\ roomParticipants["A"]["G"].odIsMuted
  /\ "A" \in socketRooms["c2"]
  /\ budget = 0

\* the three commands only the host of the room may issue
HostCommands ==
  {"host-mute-participant", "host-remove-participant", "approve-waiting-participant"}

\* the error a host command answers to a caller who is not the room's host
OnlyHostError(kind) ==
  CASE kind = "host-mute-participant" -> "Only the host can mute participants"
    [] kind = "host-remove-participant" -> "Only the host can remove participants"
    [] OTHER -> "Only the host can approve participants"

\* the error a host command answers when a store call rejects
FailedError(kind) ==
  CASE kind = "host-mute-participant" -> "Failed to mute participant"
    [] kind = "host-remove-participant" -> "Failed to remove participant"
    [] OTHER -> "Failed to approve participant"

\* the store has no room r, or the room's host is not connection c's user
Unauthorized(c, r) == r \notin Rooms \/ roomRec[r].hostId # UserOf(c)

\* C21: when host-mute-participant, host-remove-participant or
\* approve-waiting-participant is issued for a room that does not exist or
\* whose hostId is not the caller's user id, the step that handles the room
\* lookup ends the handler with one error event to the caller only (the
\* only-the-host error, or the failed error when the lookup itself rejects),
\* emits nothing else, and leaves the registry, every broadcast group and the
\* participant and waiting-room records as they were.
C21_NonHostIsRefused ==
  [][ \A h \in pending :
        (/\ h.kind \in HostCommands
         /\ h.stage = 1
         /\ Unauthorized(h.c, h.room)
         /\ h \notin pending') =>
          /\ \/ FailsWith(h.c, OnlyHostError(h.kind))
             \/ FailsWith(h.c, FailedError(h.kind))
          /\ pending' = pending \ {h}
          /\ partRec' = partRec
          /\ waitRec' = waitRec ]_vars

\* the guest, joined to room A and waiting in its waiting room, has tried to
\* approve itself and was refused: its entry and its waiting-room row remain
C21_Witness ==
  /\ out = <<ErrorEv("c2", "Only the host can approve participants")>>
  /\ HasEntry(roomParticipants, "A", "G")
  /\ waitRec[<<"G", "A">>] = "PENDING"
  /\ pending = {}

\* C22: when the room's host issues host-mute-participant(r, t) and the room
\* lookup resolves, the handler emits exactly one event,
\* participant-muted-by-host naming t, to every live connection of r's
\* broadcast group, whether or not t has a presence entry in r; with an entry
\* the registry changes in that entry's muted flag only (set to true), without
\* one the registry (its room keys included) is left as it was; no broadcast
\* group changes.
C22_MuteTellsRoomAndNeverCreates ==
  [][ \A h \in pending :
        (/\ HostMuteResume(h, TRUE)
         /\ ~Unauthorized(h.c, h.room)) =>
          /\ out' = << Ev("participant-muted-by-host", Group(h.room), h.c,
                          h.room, h.target, userName[h.c]) >>
          /\ socketRooms' = socketRooms
          /\ IF HasEntry(roomParticipants, h.room, h.target)
               THEN /\ roomParticipants'[h.room][h.target].odIsMuted
                    /\ roomParticipants' =
                         [roomParticipants EXCEPT ![h.room][h.target].odIsMuted = TRUE]
               ELSE roomParticipants' = roomParticipants ]_vars

\* the host, alone in room A, has muted the guest, who never joined: the
\* host's connection is told and the registry has no entry for the guest
C22_Witness ==
  /\ out = << Ev("participant-muted-by-host", {"c1"}, "c1", "A", "G", "Host") >>
  /\ DOMAIN roomParticipants = {"A"}
  /\ DOMAIN roomParticipants["A"] = {"H"}

\* C23: when the room's host issues host-remove-participant naming itself as
\* the target and the room lookup resolves, the handler ends with one event,
\* the error "Host cannot remove themselves", to the caller only; it leaves
\* the registry, every broadcast group and the participant records as they
\* were and goes no further (no store write is issued).
C23_HostCannotRemoveSelf ==
  [][ \A h \in pending :
        \A storeOk \in BOOLEAN :
          (/\ HostRemoveCheck(h, TRUE, storeOk)
           /\ ~Unauthorized(h.c, h.room)
           /\ h.target = UserOf(h.c)) =>
            /\ FailsWith(h.c, "Host cannot remove themselves")
            /\ pending' = pending \ {h}
            /\ partRec' = partRec
            /\ waitRec' = waitRec ]_vars

\* the host, joined to room A, has tried to remove itself: it is told so,
\* and its entry, its group membership and its participant row are intact
C23_Witness ==
  /\ out = <<ErrorEv("c1", "Host cannot remove themselves")>>
  /\ HasEntry(roomParticipants, "A", "H")
  /\ "A" \in socketRooms["c1"]
  /\ IsActivePart(partRec[<<"H", "A">>])
  /\ pending = {}

C25_RemovedConnectionsAreEvicted ==
  [][ /\ \A h \in pending :
           (/\ HostRemoveFinish(h)
            /\ h.res.ok) =>
             \A c \in Conns :
               IF c \in Group(h.room) /\ UserOf(c) = h.target
                 THEN /\ out'[1].ev = "participant-removed-by-host"
                      /\ c \in out'[1].to
                      /\ \E i \in 2..Len(out') :
                           out'[i] = Ev("you-were-removed", {c}, h.c, h.room,
                                        h.target, userName[h.c])
                      /\ h.room \notin socketRooms'[c]
                 ELSE /\ socketRooms'[c] = socketRooms[c]
                      /\ \A i \in DOMAIN out' :
                           out'[i].ev = "you-were-removed" => c \notin out'[i].to
      /\ \A c \in Conns, r \in Rooms :
           (r \notin socketRooms[c] /\ r \notin socketRooms'[c]) =>
             \A i \in DOMAIN out' : out'[i].room = r => c \notin out'[i].to ]_vars

\* the guest was in room A on both of its connections when the host removed
\* it: both got the room-wide event, then each its own you-were-removed, and
\* neither is in the group any more
C25_Witness ==
  /\ out = << Ev("participant-removed-by-host", {"c2", "c3"}, "c1", "A", "G", "Host"),
              Ev("you-were-removed", {"c2"}, "c1", "A", "G", "Host"),
              Ev("you-were-removed", {"c3"}, "c1", "A", "G", "Host") >>
  /\ socketRooms["c2"] = {}
  /\ socketRooms["c3"] = {}

\* C26: an authorized approve-waiting-participant(r, u) for a user u with a
\* waiting-room entry in r who is not an active participant of r, with the
\* store answering every call: the update sets the entry to APPROVED, the
\* create then leaves an active participant record of (u, r) with role GUEST,
\* and the handler goes on to emit waiting-room-approved with u's id to r's
\* broadcast group - for every such u, a former participant of r who
\* re-entered the waiting room included.
C26_ApproveAdmitsEveryWaitingUser ==
  [][ \A h \in pending :
        /\ (/\ ApproveCheck(h, TRUE, TRUE)
            /\ ~Unauthorized(h.c, h.room)
            /\ waitRec[<<h.target, h.room>>] # None) =>
             waitRec'[<<h.target, h.room>>] = "APPROVED"
        /\ (/\ ApproveCreate(h, TRUE)
            /\ h.res.ok
            /\ ~IsActivePart(partRec[<<h.target, h.room>>])) =>
             /\ partRec'[<<h.target, h.room>>] = ActivePart("GUEST")
             /\ Handler(h.kind, h.c, h.room, h.target, 3, Wrote(TRUE)) \in pending'
        /\ (/\ ApproveFinish(h)
            /\ h.res.ok) =>
             out' = << Ev("waiting-room-approved", Group(h.room), h.c, h.room,
                          h.target, None) >> ]_vars

\* C27: a step gives the registry an entry for (r, u) that it did not have,
\* or a room key that it did not have, only when it is the successful
\* completion of a join-room for r issued by a connection of u.  Every other
\* step (approve-waiting-participant, host-mute-participant, the toggles,
\* chat-message, leave-room, disconnect, the REST routes) adds nothing, so a
\* user the host has approved has no entry until their own join-room succeeds.
C27_OnlyJoinCreatesEntry ==
  [][ /\ \A r \in RoomIds, u \in Users :
           (~HasEntry(roomParticipants, r, u) /\ HasEntry(roomParticipants', r, u)) =>
             \E h \in pending :
               /\ JoinResume(h, TRUE)
               /\ h.room = r
               /\ UserOf(h.c) = u
               /\ Emitted("room-joined")'
      /\ \A r \in DOMAIN roomParticipants' \ DOMAIN roomParticipants :
           \E h \in pending :
             /\ JoinResume(h, TRUE)
             /\ h.room = r
             /\ Emitted("room-joined")' ]_vars

\* the guest waited, the host approved, and the guest's own join-room has
\* just succeeded: only now does the guest have an entry
C27_Witness ==
  /\ waitRec[<<"G", "A">>] = "APPROVED"
  /\ HasEntry(roomParticipants, "A", "G")
  /\ Emitted("room-joined")
  /\ out[1].to = {"c2"}
  /\ IsActivePart(partRec[<<"G", "A">>])
  /\ pending = {}
  /\ budget = MaxWaitCmds - 2

\* connection c never got past the handshake: not yet decided, or refused
NotAdmitted(c) == conn[c] \in {"new", "refused"}

\* a connection that never got past the handshake is in no broadcast group,
\* has no handler running, is neither the sender nor a receiver of an event,
\* and a user none of whose connections got past it has no presence entry
OutsideStaysOutside ==
  /\ \A c \in Conns :
       NotAdmitted(c) =>
         /\ socketRooms[c] = {}
         /\ \A h \in pending : h.c # c
         /\ \A i \in DOMAIN out : out[i].by # c /\ c \notin out[i].to
  /\ \A u \in Users :
       (\A c \in Conns : UserOf(c) = u => NotAdmitted(c)) =>
         \A r \in Rooms : ~HasEntry(roomParticipants, r, u)

\* C28: a connection that presents no token or one that does not verify is
\* refused by the middleware, and a refused connection stays refused: it
\* never is connected, so it joins no group, runs no handler, sends and
\* receives no event and gives its user no presence entry.  A connection
\* with a valid token whose user lookup finds no row is accepted and its
\* display name is "Anonymous".
C28_RefusedNeverConnects ==
  [][ /\ \A c \in Conns :
           /\ \A token \in Tokens \ {"valid"}, ok \in BOOLEAN :
                \A row \in UserRows(UserOf(c)) :
                  Connect(c, token, ok, row) => conn'[c] = "refused"
           /\ conn[c] = "refused" => conn'[c] = "refused"
           /\ Connect(c, "valid", TRUE, NoUserRow) =>
                /\ conn'[c] = "connected"
                /\ userName'[c] = "Anonymous"
      /\ OutsideStaysOutside' ]_vars

\* the guest's first connection was refused, its second one was accepted
\* without a user row and has joined room A under the name Anonymous; the
\* refused connection is in no group
C28_Witness ==
  /\ conn["c2"] = "refused"
  /\ socketRooms["c2"] = {}
  /\ conn["c3"] = "connected"
  /\ userName["c3"] = "Anonymous"
  /\ HasEntry(roomParticipants, "A", "G")
  /\ roomParticipants["A"]["G"].odName = "Anonymous"
  /\ "A" \in socketRooms["c3"]

\* the step ends handler h with the one error msg to h's connection only and
\* changes nothing else: registry, broadcast groups, connections, store and
\* the budget of commands still to come are as they were
CaughtAs(h, msg) ==
  /\ FailsWith(h.c, msg)
  /\ pending' = pending \ {h}
  /\ UNCHANGED <<conn, userName, roomRec, partRec, waitRec, budget>>

\* C29: a store call that rejects inside join-room, host-mute-participant,
\* host-remove-participant or approve-waiting-participant ends that handler
\* with its one "Failed to ..." error event to the calling connection only.
\* The rejected call writes nothing; the step that reports it leaves every
\* connection's state, the registry, the broadcast groups and the store as
\* they were, and the other handlers and the commands still to come are not
\* affected.
C29_StoreFailureIsCaught ==
  [][ \A h \in pending \ pending' :
        /\ JoinResume(h, FALSE) => CaughtAs(h, "Failed to join room")
        /\ HostMuteResume(h, FALSE) => CaughtAs(h, "Failed to mute participant")
        /\ \A ok \in BOOLEAN :
             /\ HostRemoveCheck(h, FALSE, ok) =>
                  CaughtAs(h, "Failed to remove participant")
             /\ ApproveCheck(h, FALSE, ok) =>
                  CaughtAs(h, "Failed to approve participant")
             /\ (ApproveCreate(h, ok) /\ ~h.res.ok) =>
                  CaughtAs(h, "Failed to approve participant")
        /\ (HostRemoveCheck(h, TRUE, FALSE) \/ ApproveCheck(h, TRUE, FALSE)) =>
             /\ partRec' = partRec
             /\ waitRec' = waitRec
        /\ ApproveCreate(h, FALSE) => partRec' = partRec
        /\ (HostRemoveFinish(h) /\ ~h.res.ok) =>
             CaughtAs(h, "Failed to remove participant")
        /\ (ApproveFinish(h) /\ ~h.res.ok) =>
             CaughtAs(h, "Failed to approve participant") ]_vars

\* the guest, joined to room A, sent join-room again and the store lookup
\* rejected: the guest is told, stays connected, and keeps its entry and its
\* group membership
C29_Witness ==
  /\ out = <<ErrorEv("c2", "Failed to join room")>>
  /\ Live("c2")
  /\ HasEntry(roomParticipants, "A", "G")
  /\ "A" \in socketRooms["c2"]
  /\ pending = {}

\* the commands of C30 that await the store before they broadcast
AwaitingBroadcasts == {"host-mute-participant", "host-remove-participant"}

\* the room-wide event a completed host command emits
BroadcastOf(kind) ==
  IF kind = "host-mute-participant" THEN "participant-muted-by-host"
  ELSE "participant-removed-by-host"

\* C30: per-sender order.  When a host-mute-participant or
\* host-remove-participant of connection c for room r emits its room-wide
\* event, the step before it was not a later command of the same connection
\* for the same room emitting its own room-wide event (a chat-message or a
\* toggle, handled while the host command was still waiting for the store)
\* to a receiver of both: no receiver gets the later command's event first.
C30_PerSenderOrder ==
  [][ \A h \in pending \ pending' :
        (/\ h.kind \in AwaitingBroadcasts
         /\ out' # <<>>
         /\ out'[1].ev = BroadcastOf(h.kind)
         /\ out # <<>>) =>
          ~(/\ out[1].ev \in {"chat-message", "participant-audio-changed",
                              "participant-video-changed"}
            /\ out[1].by = h.c
            /\ out[1].room = h.room
            /\ out[1].to \cap out'[1].to # {}) ]_vars

\* the two REST join routes
RestJoins == {"rest-join", "rest-join-code"}

\* handler h is an approval issued by the host of its room: the real-time
\* command on a connection of the host, or the REST route called by the host
HostApproval(h) ==
  /\ h.room \in Rooms
  /\ \/ h.kind = "approve-waiting-participant" /\ UserOf(h.c) = roomRec[h.room].hostId
     \/ h.kind = "rest-approve" /\ h.c = roomRec[h.room].hostId

\* C31: in a room with its waiting room on, a step gives a user other than
\* the host an active participant record (leftAt = null) they did not have
\* only when it is the create of an approval by the host naming that user.
\* The write of a REST join (by id or by code) by such a user touches no
\* participant record and changes the waiting-room records at most in the
\* user's own entry, which it sets to PENDING; an accepted join (room found,
\* active, not full, store answering) always does so.
C31_OnlyApprovalAdmits ==
  [][ \A u \in Users :
        (roomRec["A"].waitingRoom /\ u # roomRec["A"].hostId) =>
          /\ (~IsActivePart(partRec[<<u, "A">>]) /\ IsActivePart(partRec'[<<u, "A">>])) =>
               \E h \in pending \ pending' :
                 /\ HostApproval(h)
                 /\ h.room = "A"
                 /\ h.target = u
                 /\ h.stage = 2
          /\ \A h \in pending \ pending' :
               (h.kind \in RestJoins /\ h.c = u /\ h.room = "A") =>
                 /\ partRec' = partRec
                 /\ \/ waitRec' = waitRec
                    \/ waitRec' = [waitRec EXCEPT ![<<u, "A">>] = "PENDING"]
                 /\ (/\ RestJoinResume(h, TRUE) \/ RestJoinByCodeResume(h, TRUE)
                     /\ ~JoinRefused(h.res)) =>
                      waitRec'[<<u, "A">>] = "PENDING" ]_vars

\* the guest asked to join room A, whose waiting room is on, was approved by
\* the host, and asked again (by code): the guest holds the active GUEST
\* record the approval created and is waiting once more
C31_Witness ==
  /\ roomRec["A"].waitingRoom
  /\ partRec[<<"G", "A">>] = ActivePart("GUEST")
  /\ waitRec[<<"G", "A">>] = "PENDING"
  /\ pending = {}

\* C32: two chat-message events broadcast one after the other never carry
\* the same id, whatever the clock and the random generator returned for
\* them (two messages accepted within one millisecond included).
C32_ChatIdsDiffer ==
  [][ (/\ out # <<>>
       /\ out' # <<>>
       /\ out[1].ev = "chat-message"
       /\ out'[1].ev = "chat-message") =>
        out'[1].id # out[1].id ]_vars

\* C33: in every state where no handler is suspended, a live connection that
\* is in room r's broadcast group (it got there by its own join-room, and
\* neither its own leave-room nor a host removal has taken it out since) has
\* its user's presence entry in r - also when the user has other
\* connections that leave or disconnect.
C33_PresenceFollowsMembership ==
  pending = {} =>
    \A c \in Conns :
      Live(c) =>
        \A r \in socketRooms[c] : HasEntry(roomParticipants, r, UserOf(c))

\* C34: once a host removal of user t from room A and every join-room that
\* was in flight with it have finished, and t's participant record still
\* has leftAt set (no REST join or approval re-activated it), t has no
\* presence entry in A and no live connection of t is in A's broadcast group.
C34_RemovalNotUndoneByJoin ==
  \A t \in Users :
    (pending = {} /\ partRec[<<t, "A">>].leftAt = "set") =>
      /\ ~HasEntry(roomParticipants, "A", t)
      /\ \A c \in Conns : (Live(c) /\ UserOf(c) = t) => "A" \notin socketRooms[c]

\* C35: a participant-left event naming user u is delivered to connections of
\* room r only in a step before which u had a presence entry in r; a
\* leave-room(r) by a connection whose user has no entry in r reaches nobody
\* and leaves the registry and the broadcast groups as they were.
C35_LeftOnlyAfterPresence ==
  [][ /\ \A i \in DOMAIN out' :
           (out'[i].ev = "participant-left" /\ out'[i].to # {}) =>
             HasEntry(roomParticipants, out'[i].room, out'[i].id)
      /\ \A c \in Conns, r \in RoomIds :
           (LeaveRoom(c, r) /\ ~HasEntry(roomParticipants, r, UserOf(c))) =>
             /\ \A i \in DOMAIN out' : out'[i].to = {}
             /\ roomParticipants' = roomParticipants
             /\ socketRooms' = socketRooms ]_vars

ApprovalInProgress == \E h \in pending : h.kind = "approve-waiting-participant"

\* C37: approve-waiting-participant is all-or-nothing on the store: in every
\* state where no approval is in progress, a waiting-room entry of room A
\* with status APPROVED (which only this command sets) is accompanied by a
\* participant record of the same user for room A.
C37_ApprovedHasRecord ==
  ~ApprovalInProgress =>
    \A u \in Users :
      waitRec[<<u, "A">>] = "APPROVED" => partRec[<<u, "A">>].exists

\* C38: each room has at most one presence entry with role HOST, and an
\* entry has role HOST exactly when its user is the hostId of the persisted
\* room; the entries of all other users have role GUEST.
C38_HostRoleIffHost ==
  \A r \in DOMAIN roomParticipants :
    /\ Cardinality({u \in DOMAIN roomParticipants[r] :
                      roomParticipants[r][u].odRole = "HOST"}) <= 1
    /\ r \in DOMAIN roomRec =>
         \A u \in DOMAIN roomParticipants[r] :
           /\ roomParticipants[r][u].odRole = "HOST" <=> u = roomRec[r].hostId
           /\ roomParticipants[r][u].odRole \in {"HOST", "GUEST"}

\* the fields of a presence entry
EntryFields == {"odId", "odName", "odIsMuted", "odIsVideoOff", "odRole"}

\* the step leaves the group memberships, the keys of the registry and every
\* field of every entry as they are, except field flag of entry (r, u)
OnlyFlagChanges(r, u, flag) ==
  /\ socketRooms' = socketRooms
  /\ DOMAIN roomParticipants' = DOMAIN roomParticipants
  /\ \A q \in DOMAIN roomParticipants :
       /\ DOMAIN roomParticipants'[q] = DOMAIN roomParticipants[q]
       /\ \A v \in DOMAIN roomParticipants[q], f \in EntryFields :
            <<q, v, f>> # <<r, u, flag>> =>
              roomParticipants'[q][v][f] = roomParticipants[q][v][f]

\* C39: toggle-audio by u in room r changes only the muted flag of entry
\* (r, u), toggle-video by u only its videoOff flag, and
\* host-mute-participant(r, t) only the muted flag of entry (r, t): the role
\* and the other flag of that entry, every other entry of r, every other
\* room, the set of registry keys and all group memberships stay unchanged.
C39_OnlyTheFlagChanges ==
  [][ /\ \A c \in HostAndGuest, r \in Rooms, b \in BOOLEAN :
           /\ ToggleAudio(c, r, b) => OnlyFlagChanges(r, UserOf(c), "odIsMuted")
           /\ ToggleVideo(c, r, b) => OnlyFlagChanges(r, UserOf(c), "odIsVideoOff")
      /\ \A h \in pending \ pending' :
           (\E ok \in BOOLEAN : HostMuteResume(h, ok)) =>
             OnlyFlagChanges(h.room, h.target, "odIsMuted")
    ]_vars

\* a mute has just been broadcast in room A while the host is present in
\* rooms A and B and the guest in room A, and the entries other than the
\* muted one are unmuted
C39_Witness ==
  /\ \E i \in DOMAIN out :
       /\ out[i].ev \in {"participant-audio-changed", "participant-muted-by-host"}
       /\ out[i].room = "A"
       /\ out[i].id = "H"
  /\ HasEntry(roomParticipants, "A", "H")
  /\ HasEntry(roomParticipants, "A", "G")
  /\ HasEntry(roomParticipants, "B", "H")
  /\ roomParticipants["A"]["H"].odIsMuted
  /\ ~roomParticipants["A"]["G"].odIsMuted
  /\ ~roomParticipants["B"]["H"].odIsMuted

\* a join-room command of connection c for room r awaits its store call
JoinPending(c, r) ==
  \E h \in pending : h.kind = "join-room" /\ h.c = c /\ h.room = r

\* the positions of the events of evs that answer a join-room of connection
\* c: a room-joined or an error event sent to c
Answers(evs, c) ==
  {i \in DOMAIN evs : evs[i].ev \in {"room-joined", "error"} /\ c \in evs[i].to}

\* the last step answered a join-room of connection c
Answered(c) == Answers(out, c) # {}

\* C40: every join-room command received on a live connection is answered
\* in the end, given that its store call returns or fails (SpecAnswer): the
\* step that ends its handler sends exactly one event, a room-joined or an
\* error, to the calling connection, never both and never none.
C40_JoinAnswered ==
  /\ \A c \in HostAndGuest, r \in OneRoom : JoinPending(c, r) ~> Answered(c)
  /\ [][ \A h \in pending \ pending' :
           h.kind = "join-room" => Cardinality(Answers(out', h.c)) = 1 ]_vars

\* the host has joined room A and been answered with room-joined, and the
\* last step answered the guest's join-room, whose lookup failed, with an
\* error; no command is left unanswered
C40_Witness ==
  /\ HasEntry(roomParticipants, "A", "H")
  /\ "A" \in socketRooms["c1"]
  /\ out = <<ErrorEv("c2", "Failed to join room")>>
  /\ pending = {}

=============================================================================
